---- MODULE Spec2Model ----
(***************************************************************************)
(* Verification model of the autonomous-auto-agent reasoning pipeline:     *)
(* the conversation state machine and the POST turn handler, the           *)
(* constraint normalizer, the scoring and tiering engine, the decision     *)
(* engine and the watch store.                                             *)
(*                                                                         *)
(* Strings are sequences of one-character strings so that toLowerCase,     *)
(* trim, String.includes and the regular expressions of the source are     *)
(* computed, not assumed.  An absent (undefined) or empty string is <<>>;  *)
(* both are falsy in the source.  An absent number is NoNum.               *)
(***************************************************************************)
EXTENDS Integers, Sequences, FiniteSets, TLC

VARIABLES
    session,    \* Chat.tsx: the session the client holds and sends next
    store,      \* watchStore.ts: the process-wide Map key -> WatchSpec
    req,        \* the POST request in flight (position, working copy)
    resp,       \* the last response and the path of POST that produced it
    parked,     \* the turns of other sessions, suspended at an await or done
    seed,       \* scoreAndTier: the ExploreSeed argument
    items,      \* scoreAndTier: the signalsAndCandidates argument
    tiered,     \* scoreAndTier: the Tiered result
    retrieval   \* liveExplore.ts: the retrieval call of the turn and its timer

vars == <<session, store, req, resp, parked, seed, items, tiered, retrieval>>

turnVars == <<session, store, req, resp, parked, retrieval>>
scoreVars == <<seed, items, tiered>>

\* ------------------------------------------------------------------------
\* Bounds of the model
\* ------------------------------------------------------------------------
MaxBatch == 6
MaxDeviations == 2

\* the longest lists of finalists and of discovery candidates given to decide
MaxDecideFinalists == 3
MaxDecideDiscovery == 2

\* the number of sessions whose turns run beside the running one
MaxParked == 1

\* ------------------------------------------------------------------------
\* Strings
\* ------------------------------------------------------------------------
NoStr == <<>>
NoNum == -1

UpperLetters == <<"A","B","C","D","E","F","G","H","I","J","K","L","M",
                  "N","O","P","Q","R","S","T","U","V","W","X","Y","Z">>
LowerLetters == <<"a","b","c","d","e","f","g","h","i","j","k","l","m",
                  "n","o","p","q","r","s","t","u","v","w","x","y","z">>
Digits == {"0","1","2","3","4","5","6","7","8","9"}

Range(f) == {f[i] : i \in DOMAIN f}

LowerOf == [c \in Range(UpperLetters) |->
               LowerLetters[CHOOSE i \in 1..26 : UpperLetters[i] = c]]

toLowerChar(c) == IF c \in DOMAIN LowerOf THEN LowerOf[c] ELSE c

toLowerCase(s) == <<>> \o [i \in 1..Len(s) |-> toLowerChar(s[i])]

\* \w of the regular expressions
WordChars == Range(UpperLetters) \cup Range(LowerLetters) \cup Digits \cup {"_"}

IsWordChar(c) == c \in WordChars

RECURSIVE trimStart(_)
trimStart(s) == IF s # <<>> /\ Head(s) = " " THEN trimStart(Tail(s)) ELSE s

RECURSIVE trimEnd(_)
trimEnd(s) ==
    IF s # <<>> /\ s[Len(s)] = " " THEN trimEnd(SubSeq(s, 1, Len(s) - 1)) ELSE s

trim(s) == trimEnd(trimStart(s))

\* w occurs in t at position i
startsAt(t, i, w) ==
    /\ i >= 1
    /\ i + Len(w) - 1 <= Len(t)
    /\ \A k \in 1..Len(w) : t[i + k - 1] = w[k]

\* String.prototype.includes
includes(hay, needle) ==
    \E i \in 1..(Len(hay) - Len(needle) + 1) : startsAt(hay, i, needle)

\* /^word\b/.test(t) for a keyword made of word characters
testLeading(word, t) ==
    /\ startsAt(t, 1, word)
    /\ (Len(t) = Len(word) \/ ~IsWordChar(t[Len(word) + 1]))

join2(a, b) == IF a = <<>> THEN b ELSE IF b = <<>> THEN a ELSE a \o <<" ">> \o b

kw_confirm == <<"c", "o", "n", "f", "i", "r", "m">>
kw_watch == <<"w", "a", "t", "c", "h">>
kw_act == <<"a", "c", "t">>
kw_decide == <<"d", "e", "c", "i", "d", "e">>
kw_revise == <<"r", "e", "v", "i", "s", "e">>
kw_manual == <<"m", "a", "n", "u", "a", "l">>
kw_automatic == <<"a", "u", "t", "o", "m", "a", "t", "i", "c">>
kw_pdk == <<"p", "d", "k">>
kw_dsg == <<"d", "s", "g">>

\* ------------------------------------------------------------------------
\* schema.ts
\* ------------------------------------------------------------------------
AgentState == {"S0_INIT", "S1_CAPTURE", "S2_CONFIRM", "S3_EXPLORE",
               "S4_DECIDE", "S5_WATCH", "S6_ITERATE", "S7_CLOSE"}

Verdict == {"ACCEPT", "CONDITIONAL", "REJECT"}

NoWatch == [kind |-> "none"]
NoDecision == [action |-> "none"]

\* ------------------------------------------------------------------------
\* stateMachine.ts
\* ------------------------------------------------------------------------
SomeAccept_nonEmpty(cs) == Len(cs) > 0

SomeAccept(cs) == \E i \in 1..Len(cs) : cs[i].verdict = "ACCEPT"

nextExecState_iterateLoop(s) ==
    CASE s.state = "S0_INIT" -> "S1_CAPTURE"
      [] s.state = "S1_CAPTURE" ->
            IF Len(s.constraints.tier1) >= 3 THEN "S2_CONFIRM" ELSE "S1_CAPTURE"
      [] s.state = "S2_CONFIRM" -> "S3_EXPLORE"
      [] s.state = "S3_EXPLORE" -> "S4_DECIDE"
      [] s.state = "S4_DECIDE" ->
            IF SomeAccept(s.finalists) THEN "S7_CLOSE" ELSE "S5_WATCH"
      [] s.state = "S5_WATCH" -> "S7_CLOSE"
      [] s.state = "S6_ITERATE" -> "S1_CAPTURE"
      [] s.state = "S7_CLOSE" -> "S7_CLOSE"
      [] OTHER -> "S1_CAPTURE"

\* a transition out of S4_DECIDE that counts the accepted discovery
\* candidates as well
nextExecState_anyCandidate(s) ==
    CASE s.state = "S0_INIT" -> "S1_CAPTURE"
      [] s.state = "S1_CAPTURE" ->
            IF Len(s.constraints.tier1) >= 3 THEN "S2_CONFIRM" ELSE "S1_CAPTURE"
      [] s.state = "S2_CONFIRM" -> "S3_EXPLORE"
      [] s.state = "S3_EXPLORE" -> "S4_DECIDE"
      [] s.state = "S4_DECIDE" ->
            IF SomeAccept(s.finalists \o s.discovery) THEN "S7_CLOSE" ELSE "S5_WATCH"
      [] s.state = "S5_WATCH" -> "S7_CLOSE"
      [] s.state = "S6_ITERATE" -> "S2_CONFIRM"
      [] s.state = "S7_CLOSE" -> "S7_CLOSE"
      [] OTHER -> "S1_CAPTURE"

\* a state machine in which a watching session keeps watching
nextExecState_watchStays(s) ==
    CASE s.state = "S0_INIT" -> "S1_CAPTURE"
      [] s.state = "S1_CAPTURE" ->
            IF Len(s.constraints.tier1) >= 3 THEN "S2_CONFIRM" ELSE "S1_CAPTURE"
      [] s.state = "S2_CONFIRM" -> "S3_EXPLORE"
      [] s.state = "S3_EXPLORE" -> "S4_DECIDE"
      [] s.state = "S4_DECIDE" ->
            IF SomeAccept(s.finalists) THEN "S7_CLOSE" ELSE "S5_WATCH"
      [] s.state = "S5_WATCH" -> "S5_WATCH"
      [] s.state = "S6_ITERATE" -> "S2_CONFIRM"
      [] s.state = "S7_CLOSE" -> "S7_CLOSE"
      [] OTHER -> "S1_CAPTURE"

nextExecState(s) ==
    CASE s.state = "S0_INIT" -> "S1_CAPTURE"
      [] s.state = "S1_CAPTURE" ->
            IF Len(s.constraints.tier1) >= 3 THEN "S2_CONFIRM" ELSE "S1_CAPTURE"
      [] s.state = "S2_CONFIRM" -> "S3_EXPLORE"
      [] s.state = "S3_EXPLORE" -> "S4_DECIDE"
      [] s.state = "S4_DECIDE" ->
            IF SomeAccept(s.finalists) THEN "S7_CLOSE" ELSE "S5_WATCH"
      [] s.state = "S5_WATCH" -> "S7_CLOSE"
      [] s.state = "S6_ITERATE" -> "S2_CONFIRM"
      [] s.state = "S7_CLOSE" -> "S7_CLOSE"
      [] OTHER -> "S1_CAPTURE"

\* [...items].sort((a, b) => b.score - a.score): a stable sort, descending
RECURSIVE insertDesc(_, _)
insertDesc(sorted, c) ==
    IF sorted = <<>> THEN <<c>>
    ELSE IF Head(sorted).score >= c.score
         THEN <<Head(sorted)>> \o insertDesc(Tail(sorted), c)
         ELSE <<c>> \o sorted

RECURSIVE sortDesc(_)
sortDesc(cs) ==
    IF cs = <<>> THEN <<>>
    ELSE insertDesc(sortDesc(SubSeq(cs, 1, Len(cs) - 1)), cs[Len(cs)])

slice(cs, n) == SubSeq(cs, 1, IF Len(cs) < n THEN Len(cs) ELSE n)

clampFinalists_unsorted(cs) == slice(cs, 5)

clampFinalists(cs) == slice(sortDesc(cs), 5)

clampDiscovery(cs) == slice(sortDesc(cs), 3)

\* ------------------------------------------------------------------------
\* scoreAndTier.ts
\* ------------------------------------------------------------------------
\* JavaScript truthiness of an optional number: undefined and 0 are falsy
Truthy(n) == n # NoNum /\ n # 0

Max(a, b) == IF a >= b THEN a ELSE b
Min(a, b) == IF a <= b THEN a ELSE b

includesCI(hay, needle) ==
    IF hay = <<>> \/ needle = <<>> THEN FALSE
    ELSE includes(toLowerCase(hay), toLowerCase(needle))

transmissionNorm(x) ==
    LET t == toLowerCase(x) IN
    IF t = <<>> THEN "undefined"
    ELSE IF includes(t, kw_manual) THEN "manual"
    ELSE IF includes(t, kw_automatic) \/ includes(t, kw_pdk) \/ includes(t, kw_dsg)
         THEN "automatic"
    ELSE "undefined"

\* a match that takes any evidence as confirmation
strictAttributeMatch_anyEvidence(required, ev1, ev2) ==
    IF required = <<>> THEN "confirmed"
    ELSE IF join2(ev1, ev2) = <<>> THEN "unknown"
    ELSE "confirmed"

\* evidence.filter(Boolean).join(" ").toLowerCase() for the two-element
\* evidence arrays of scoreAndTier
strictAttributeMatch(required, ev1, ev2) ==
    IF required = <<>> THEN "confirmed"
    ELSE LET reqd == toLowerCase(required)
             haystack == toLowerCase(join2(ev1, ev2))
         IN  IF haystack = <<>> THEN "unknown"
             ELSE IF includes(haystack, reqd) THEN "confirmed"
             ELSE "unknown"

\* the rationale lines of scoreAndTier
r_wrong_make == <<"W", "r", "o", "n", "g", " ", "m", "a", "k", "e">>
r_wrong_model == <<"W", "r", "o", "n", "g", " ", "m", "o", "d", "e", "l">>
r_year_outside == <<"Y", "e", "a", "r", " ", "o", "u", "t", "s", "i", "d", "e", " ", "r", "e", "q", "u", "i", "r", "e", "d", " ", "r", "a", "n", "g", "e">>
r_tx_fail == <<"T", "r", "a", "n", "s", "m", "i", "s", "s", "i", "o", "n", " ", "d", "o", "e", "s", " ", "n", "o", "t", " ", "m", "e", "e", "t", " ", "r", "e", "q", "u", "i", "r", "e", "m", "e", "n", "t">>
r_year_verify == <<"Y", "e", "a", "r", " ", "n", "o", "t", " ", "s", "p", "e", "c", "i", "f", "i", "e", "d", " ", "(", "v", "e", "r", "i", "f", "y", ")">>
r_manual == <<"M", "a", "n", "u", "a", "l", " ", "t", "r", "a", "n", "s", "m", "i", "s", "s", "i", "o", "n">>
r_trim_confirmed == <<"T", "r", "i", "m", " ", "c", "o", "n", "f", "i", "r", "m", "e", "d">>
r_trim_not_confirmed == <<"T", "r", "i", "m", " ", "n", "o", "t", " ", "c", "o", "n", "f", "i", "r", "m", "e", "d">>
r_color_confirmed == <<"C", "o", "l", "o", "r", " ", "c", "o", "n", "f", "i", "r", "m", "e", "d">>
r_color_not_confirmed == <<"C", "o", "l", "o", "r", " ", "n", "o", "t", " ", "c", "o", "n", "f", "i", "r", "m", "e", "d">>
r_within_budget == <<"W", "i", "t", "h", "i", "n", " ", "b", "u", "d", "g", "e", "t">>
r_over_budget == <<"O", "v", "e", "r", " ", "b", "u", "d", "g", "e", "t">>
r_price_unknown == <<"P", "r", "i", "c", "e", " ", "u", "n", "k", "n", "o", "w", "n">>
r_mileage_unknown == <<"M", "i", "l", "e", "a", "g", "e", " ", "u", "n", "k", "n", "o", "w", "n">>
r_mileage_ideal == <<"M", "i", "l", "e", "a", "g", "e", " ", "i", "d", "e", "a", "l">>
r_mileage_acceptable == <<"M", "i", "l", "e", "a", "g", "e", " ", "a", "c", "c", "e", "p", "t", "a", "b", "l", "e">>
r_mileage_above == <<"M", "i", "l", "e", "a", "g", "e", " ", "a", "b", "o", "v", "e", " ", "p", "r", "e", "f", "e", "r", "e", "n", "c", "e">>
r_salt == <<"V", "e", "r", "i", "f", "y", " ", "s", "a", "l", "t", "-", "r", "o", "a", "d", " ", "h", "i", "s", "t", "o", "r", "y">>
r_unscored == <<"U", "n", "s", "c", "o", "r", "e", "d", " ", "(", "i", "n", "i", "t", "i", "a", "l", ")">>

\* `${line} (${arg})`
withArg(line, arg) == line \o <<" ", "(">> \o arg \o <<")">>

Reject_keepScore(candidate, why) ==
    [class |-> "rejected",
     cand  |-> [candidate EXCEPT !.verdict = "REJECT", !.rationale = <<why>>]]

Reject(candidate, why) ==
    [class |-> "rejected",
     cand  |-> [candidate EXCEPT !.verdict = "REJECT", !.score = 0,
                                 !.rationale = <<why>>]]

\* the year gate of the loop body
yearOk(sd, sig) ==
    \/ ~Truthy(sd.yearMin)
    \/ /\ sig.year # NoNum
       /\ sig.year >= sd.yearMin
       /\ (~Truthy(sd.yearMax) \/ sig.year <= sd.yearMax)

\* a transmission gate that rejects automatic transmissions only
txOk_notAutomatic(sd, sig) ==
    sd.transmission # "manual" \/ transmissionNorm(sig.transmission) # "automatic"

txOk(sd, sig) ==
    sd.transmission # "manual" \/ transmissionNorm(sig.transmission) = "manual"

\* a budget gate that lets a record without a price through
budgetOk_unknownPasses(sd, sig) ==
    \/ ~Truthy(sd.budgetMaxUsd)
    \/ sig.price = NoNum
    \/ sig.price <= sd.budgetMaxUsd

budgetOk(sd, sig) ==
    \/ ~Truthy(sd.budgetMaxUsd)
    \/ (sig.price # NoNum /\ sig.price <= sd.budgetMaxUsd)

\* the score and the reasons after the steps: <<score, reasons>>
RECURSIVE applySteps(_, _, _)
applySteps(score, reasons, steps) ==
    IF steps = <<>> THEN <<score, reasons>>
    ELSE applySteps(score + Head(steps)[1], reasons \o Head(steps)[2], Tail(steps))

\* the steps of the loop body after the hard gates, each one <<what it adds
\* to the score, the reasons it pushes>>
scoreSteps(sd, sig, trimMatch, colorMatch) ==
    LET yearStep ==
            IF Truthy(sd.yearMin) /\ sig.year = NoNum
            THEN <<0, <<r_year_verify>>>> ELSE <<0, <<>>>>
        txStep ==
            IF sd.transmission = "manual" THEN <<10, <<r_manual>>>> ELSE <<0, <<>>>>
        trimStep ==
            IF sd.trim = <<>> THEN <<0, <<>>>>
            ELSE IF trimMatch = "confirmed"
                THEN <<8, <<withArg(r_trim_confirmed, sd.trim)>>>>
            ELSE <<0, <<withArg(r_trim_not_confirmed, sd.trim)>>>>
        colorStep ==
            IF sd.exteriorColor = <<>> THEN <<0, <<>>>>
            ELSE IF colorMatch = "confirmed"
                THEN <<12, <<withArg(r_color_confirmed, sd.exteriorColor)>>>>
            ELSE <<0, <<withArg(r_color_not_confirmed, sd.exteriorColor)>>>>
        budgetStep ==
            IF ~Truthy(sd.budgetMaxUsd) THEN <<0, <<>>>>
            ELSE IF budgetOk(sd, sig) /\ sig.price # NoNum THEN <<8, <<r_within_budget>>>>
            ELSE IF sig.price # NoNum THEN <<0 - 10, <<r_over_budget>>>>
            ELSE <<0, <<r_price_unknown>>>>
        mileageStep ==
            IF sig.miles = NoNum THEN <<0, <<r_mileage_unknown>>>>
            ELSE IF Truthy(sd.mileageIdealMax) /\ sig.miles <= sd.mileageIdealMax
                THEN <<10, <<r_mileage_ideal>>>>
            ELSE IF Truthy(sd.mileageOkMax) /\ sig.miles <= sd.mileageOkMax
                THEN <<5, <<r_mileage_acceptable>>>>
            ELSE IF Truthy(sd.mileageOkMax) /\ sig.miles > sd.mileageOkMax
                THEN <<0 - 8, <<r_mileage_above>>>>
            ELSE <<0, <<>>>>
        saltStep ==
            IF sd.avoidSaltHistory /\ sig.state # <<>>
            THEN <<0, <<r_salt>>>> ELSE <<0, <<>>>>
    IN  applySteps(50, <<>>, <<yearStep, txStep, trimStep, colorStep, budgetStep,
                               mileageStep, saltStep>>)

\* a tier-1 gate that leaves the budget out
tier1Pass_noBudget(sd, sig, trimMatch, colorMatch) ==
    /\ (sd.trim = <<>> \/ trimMatch = "confirmed")
    /\ (sd.exteriorColor = <<>> \/ colorMatch = "confirmed")
    /\ txOk(sd, sig)
    /\ yearOk(sd, sig)

\* a tier-1 gate that also asks for a mileage within the acceptable band
tier1Pass_mileage(sd, sig, trimMatch, colorMatch) ==
    /\ (sd.trim = <<>> \/ trimMatch = "confirmed")
    /\ (sd.exteriorColor = <<>> \/ colorMatch = "confirmed")
    /\ txOk(sd, sig)
    /\ yearOk(sd, sig)
    /\ budgetOk(sd, sig)
    /\ (~Truthy(sd.mileageOkMax) \/ sig.miles = NoNum \/ sig.miles <= sd.mileageOkMax)

tier1Pass(sd, sig, trimMatch, colorMatch) ==
    /\ (sd.trim = <<>> \/ trimMatch = "confirmed")
    /\ (sd.exteriorColor = <<>> \/ colorMatch = "confirmed")
    /\ txOk(sd, sig)
    /\ yearOk(sd, sig)
    /\ budgetOk(sd, sig)

\* the record pushed for a listing that passed the hard gates: sr is
\* <<score, reasons>>, pass the tier-1 gate
Tier(candidate, sr, pass) ==
    [class |-> IF pass THEN "finalist" ELSE "discovery",
     cand  |-> [candidate EXCEPT
                  !.score = Max(0, Min(100, sr[1])),
                  !.rationale = sr[2],
                  !.verdict = IF pass /\ Max(0, Min(100, sr[1])) >= 75
                              THEN "ACCEPT" ELSE "CONDITIONAL"]]

\* the loop body after the hard gates
scoreGated(sd, sig, candidate, trimMatch, colorMatch) ==
    Tier(candidate, scoreSteps(sd, sig, trimMatch, colorMatch),
         tier1Pass(sd, sig, trimMatch, colorMatch))

\* one iteration of the for loop of scoreAndTier: the list the record is
\* pushed to and the candidate pushed
scoreOne(sd, item) ==
    IF sd.make # <<>> /\ item.sig.make # <<>> /\ ~includesCI(item.sig.make, sd.make)
        THEN Reject(item.candidate, r_wrong_make)
    ELSE IF sd.model # <<>> /\ item.sig.model # <<>>
                /\ ~includesCI(item.sig.model, sd.model)
        THEN Reject(item.candidate, r_wrong_model)
    ELSE IF ~yearOk(sd, item.sig)
        THEN Reject(item.candidate, r_year_outside)
    ELSE IF ~txOk(sd, item.sig)
        THEN Reject(item.candidate, r_tx_fail)
    ELSE scoreGated(sd, item.sig, item.candidate,
            strictAttributeMatch(sd.trim, item.sig.trim, item.sig.rawText),
            strictAttributeMatch(sd.exteriorColor, item.sig.exteriorColor,
                                 item.sig.rawText))

\* the candidates of one class, in input order
RECURSIVE pushed(_, _)
pushed(outs, class) ==
    IF outs = <<>> THEN <<>>
    ELSE (IF Head(outs).class = class THEN <<Head(outs).cand>> ELSE <<>>)
            \o pushed(Tail(outs), class)

\* the three lists of the result, finalists and discovery clamped
tieredOf(outs) ==
    [finalists |-> clampFinalists(pushed(outs, "finalist")),
     discovery |-> clampDiscovery(pushed(outs, "discovery")),
     rejected  |-> pushed(outs, "rejected")]

scoreAndTier(sd, its) == tieredOf([i \in 1..Len(its) |-> scoreOne(sd, its[i])])

\* ------------------------------------------------------------------------
\* normalizeCandidate.ts
\* ------------------------------------------------------------------------
RECURSIVE joinAll(_)
joinAll(parts) ==
    IF parts = <<>> THEN <<>> ELSE join2(Head(parts), joinAll(Tail(parts)))

\* rawText of listingToSignals: the non-empty fields joined by " ", lowercased
rawTextOf(make, model, trm, transmission, exteriorColor, state) ==
    toLowerCase(joinAll(<<make, model, trm, transmission, exteriorColor, state>>))

\* listingToSignals: the fields of the listing and the rawText built from them
listingToSignals(f) ==
    [year |-> f.year, make |-> f.make, model |-> f.model, trim |-> f.trim,
     transmission |-> f.transmission, exteriorColor |-> f.exteriorColor,
     price |-> f.price, miles |-> f.miles, state |-> f.state,
     rawText |-> rawTextOf(f.make, f.model, f.trim, f.transmission,
                           f.exteriorColor, f.state)]

\* buildCandidateFromSignals(sig, 50, "CONDITIONAL", ["Unscored (initial)"])
buildCandidateFromSignals(id) ==
    [id |-> id, verdict |-> "CONDITIONAL", score |-> 50,
     rationale |-> <<r_unscored>>, is_placeholder |-> FALSE]

\* ------------------------------------------------------------------------
\* normalize.ts
\* ------------------------------------------------------------------------
EN_DASH == "EN_DASH"
EM_DASH == "EM_DASH"

IsDigit(c) == c \in Digits

\* t[i], or " " (a non-word character) outside the string
at(t, i) == IF i >= 1 /\ i <= Len(t) THEN t[i] ELSE " "

\* a \b boundary lies between positions i and i+1 of t
boundary(t, i) == IsWordChar(at(t, i)) # IsWordChar(at(t, i + 1))

\* .replace(/\s+/g, " ")
RECURSIVE collapseSpaces(_)
collapseSpaces(s) ==
    IF s = <<>> THEN <<>>
    ELSE IF Head(s) = " " /\ Len(s) >= 2 /\ s[2] = " " THEN collapseSpaces(Tail(s))
    ELSE <<Head(s)>> \o collapseSpaces(Tail(s))

\* .replace(/[EN_DASH EM_DASH]/g, "-")
unifyDashes(s) ==
    <<>> \o [i \in 1..Len(s) |-> IF s[i] \in {EN_DASH, EM_DASH} THEN "-" ELSE s[i]]

normalizeLine(s) == trim(unifyDashes(collapseSpaces(toLowerCase(s))))

\* /\bphrase\b/.test(t) for a phrase that starts and ends with a word character
matchWord(t, phrase) ==
    \E i \in 1..(Len(t) - Len(phrase) + 1) :
        /\ startsAt(t, i, phrase)
        /\ boundary(t, i - 1)
        /\ boundary(t, i + Len(phrase) - 1)

w_non_negotiable == <<"n","o","n","-","n","e","g","o","t","i","a","b","l","e">>
w_dealbreaker == <<"d","e","a","l","b","r","e","a","k","e","r">>
w_deal_breaker == <<"d","e","a","l","-","b","r","e","a","k","e","r">>
w_must == <<"m","u","s","t">>
w_only == <<"o","n","l","y">>
w_clean_title == <<"c","l","e","a","n"," ","t","i","t","l","e">>
w_nice == <<"n","i","c","e">>
w_avoid == <<"a","v","o","i","d">>
w_prefer == <<"p","r","e","f","e","r">>
w_preferred == <<"p","r","e","f","e","r","r","e","d">>
w_ideal == <<"i","d","e","a","l">>
w_ideally == <<"i","d","e","a","l","l","y">>
w_acceptable == <<"a","c","c","e","p","t","a","b","l","e">>
w_ok == <<"o","k">>

HardWords == {w_non_negotiable, w_dealbreaker, w_deal_breaker, w_must, w_only, w_clean_title}
\* "nice to have" and "nice-to-have" both begin with the word "nice"
NiceWords == {w_nice}
PreferenceWords == {w_avoid, w_prefer, w_preferred, w_ideal, w_ideally, w_acceptable, w_ok}

\* classifyConstraintTier moving a preference line one tier down from where
\* it arrived
classifyConstraintTier_demote(text, prior) ==
    IF \E w \in PreferenceWords : matchWord(normalizeLine(text), w)
    THEN (IF prior = "tier1" THEN "tier2" ELSE "tier3")
    ELSE prior

\* classifyConstraintTier keeping every line in the tier it arrived in
classifyConstraintTier_keepPrior(text, prior) == prior

classifyConstraintTier(text, prior) ==
    LET t == normalizeLine(text)
        isHard == \E w \in HardWords : matchWord(t, w)
        isNice == \E w \in NiceWords : matchWord(t, w)
        isPreference == \E w \in PreferenceWords : matchWord(t, w)
    IN  IF isHard THEN "tier1"
        ELSE IF isNice THEN "tier3"
        ELSE IF isPreference THEN (IF prior = "tier3" THEN "tier3" ELSE "tier2")
        ELSE prior

\* pushUnique(arr, item) of normalizeSession
pushUnique(arr, item) ==
    LET norm == normalizeLine(item) IN
    IF norm = <<>> THEN arr
    ELSE IF \E i \in 1..Len(arr) : normalizeLine(arr[i]) = norm THEN arr
    ELSE Append(arr, trim(item))

\* the three loops of normalizeSession over <<text, prior tier>> pairs
RECURSIVE classifyAll(_, _)
classifyAll(pairs, acc) ==
    IF pairs = <<>> THEN acc
    ELSE LET c == Head(pairs)[1]
             bucket == classifyConstraintTier(c, Head(pairs)[2])
         IN  classifyAll(Tail(pairs),
                         [acc EXCEPT ![bucket] = pushUnique(acc[bucket], c)])

tagged(lines, tier) == [i \in 1..Len(lines) |-> <<lines[i], tier>>]

\* the text of all three tiers joined by " | "
RECURSIVE joinBar(_)
joinBar(lines) ==
    IF lines = <<>> THEN <<>>
    ELSE IF Len(lines) = 1 THEN Head(lines)
    ELSE Head(lines) \o <<" ", "|", " ">> \o joinBar(Tail(lines))

\* [...tier1, ...tier2, ...tier3]
allEntries(c) == c.tier1 \o c.tier2 \o c.tier3

allTextOf(c) == joinBar(allEntries(c))

IsYearAt(t, i) ==
    /\ i + 3 <= Len(t)
    /\ <<t[i], t[i + 1]>> \in {<<"1", "9">>, <<"2", "0">>}
    /\ IsDigit(t[i + 2]) /\ IsDigit(t[i + 3])

RECURSIVE skipSpaces(_, _)
skipSpaces(t, i) == IF i <= Len(t) /\ t[i] = " " THEN skipSpaces(t, i + 1) ELSE i

\* the end position of a match, at i, of  \b(19|20)\d{2}\s*SEP\s*(19|20)\d{2}\b
\* where SEP is one character of seps or the word "to"; 0 when there is none
yearRangeEnd(t, i, seps, allowTo) ==
    IF ~(boundary(t, i - 1) /\ IsYearAt(t, i)) THEN 0
    ELSE LET j == skipSpaces(t, i + 4)
             afterSep ==
                IF at(t, j) \in seps THEN j + 1
                ELSE IF allowTo /\ toLowerCase(<<at(t, j), at(t, j + 1)>>) = <<"t", "o">>
                     THEN j + 2
                ELSE 0
             k == IF afterSep = 0 THEN 0 ELSE skipSpaces(t, afterSep)
         IN  IF k # 0 /\ IsYearAt(t, k) /\ boundary(t, k + 3) THEN k + 3 ELSE 0

\* String.match of the year-range pattern: the text m[0] of the leftmost
\* match, or <<>>
matchYearRange(t, seps, allowTo) ==
    LET hits == {i \in 1..Len(t) : yearRangeEnd(t, i, seps, allowTo) # 0} IN
    IF hits = {} THEN <<>>
    ELSE LET i == CHOOSE h \in hits : \A g \in hits : h <= g
         IN  SubSeq(t, i, yearRangeEnd(t, i, seps, allowTo))

\* m.match(/\b(19|20)\d{2}\b/g): the start positions, ascending
yearsIn(m) ==
    LET ps == {p \in 1..Len(m) : IsYearAt(m, p) /\ boundary(m, p - 1) /\ boundary(m, p + 3)}
        RECURSIVE asc(_)
        asc(S) == IF S = {} THEN <<>>
                  ELSE LET lo == CHOOSE x \in S : \A y \in S : x <= y
                       IN  <<lo>> \o asc(S \ {lo})
    IN  asc(ps)

\* extractYearRange: the dash pattern first, the "to" pattern second
extractYearRange(text) ==
    LET range(m, years) ==
            IF m = <<>> \/ Len(years) < 2 THEN <<>>
            ELSE SubSeq(m, years[1], years[1] + 3) \o <<"-">>
                    \o SubSeq(m, years[2], years[2] + 3)
        rangeOf(m) == range(m, yearsIn(m))
        orTo(m1) == IF m1 # <<>> THEN m1 ELSE matchYearRange(text, {}, TRUE)
    IN  rangeOf(orTo(matchYearRange(text, {"-", EN_DASH, EM_DASH}, FALSE)))

\* the length of a match at i of each pattern of extractGenerationToken, or 0
genLenAt(t, i, pattern) ==
    CASE pattern = 1 ->      \* /\b\d{3}\.\d\b/
            IF /\ boundary(t, i - 1)
               /\ IsDigit(at(t, i)) /\ IsDigit(at(t, i + 1)) /\ IsDigit(at(t, i + 2))
               /\ at(t, i + 3) = "." /\ IsDigit(at(t, i + 4))
               /\ boundary(t, i + 4)
            THEN 5 ELSE 0
      [] pattern = 2 ->      \* /\b\d{3}\b/
            IF /\ boundary(t, i - 1)
               /\ IsDigit(at(t, i)) /\ IsDigit(at(t, i + 1)) /\ IsDigit(at(t, i + 2))
               /\ boundary(t, i + 2)
            THEN 3 ELSE 0
      [] pattern = 3 ->      \* /\b[A-Z]\d{2,3}\b/
            IF /\ boundary(t, i - 1)
               /\ at(t, i) \in DOMAIN LowerOf
               /\ IsDigit(at(t, i + 1)) /\ IsDigit(at(t, i + 2))
            THEN IF IsDigit(at(t, i + 3)) /\ boundary(t, i + 3) THEN 4
                 ELSE IF boundary(t, i + 2) THEN 3 ELSE 0
            ELSE 0
      [] OTHER ->            \* /\bB\d(\.\d)?\b/i
            IF /\ boundary(t, i - 1)
               /\ toLowerChar(at(t, i)) = "b"
               /\ IsDigit(at(t, i + 1))
            THEN IF at(t, i + 2) = "." /\ IsDigit(at(t, i + 3)) /\ boundary(t, i + 3) THEN 4
                 ELSE IF boundary(t, i + 1) THEN 2 ELSE 0
            ELSE 0

firstGenMatch(t, pattern) ==
    LET hits == {i \in 1..Len(t) : genLenAt(t, i, pattern) # 0} IN
    IF hits = {} THEN <<>>
    ELSE LET i == CHOOSE h \in hits : \A g \in hits : h <= g
         IN  SubSeq(t, i, i + genLenAt(t, i, pattern) - 1)

toUpperChar(c) ==
    IF c \in Range(LowerLetters)
    THEN UpperLetters[CHOOSE i \in 1..26 : LowerLetters[i] = c] ELSE c

toUpperCase(s) == [i \in 1..Len(s) |-> toUpperChar(s[i])]

RECURSIVE firstGenOf(_, _)
firstGenOf(t, pattern) ==
    IF pattern > 4 THEN <<>>
    ELSE LET orNext(m) == IF m # <<>> THEN toUpperCase(m)
                          ELSE firstGenOf(t, pattern + 1)
         IN  orNext(firstGenMatch(t, pattern))

extractGenerationToken(text) == firstGenOf(text, 1)

normalizeSession(s) ==
    LET allText == allTextOf(s.constraints)
        gen == IF s.intent.gen # <<>> THEN s.intent.gen ELSE extractGenerationToken(allText)
        yr == IF s.intent.year_range # <<>> THEN s.intent.year_range
              ELSE extractYearRange(allText)
        tiers == classifyAll(tagged(s.constraints.tier1, "tier1")
                                \o tagged(s.constraints.tier2, "tier2")
                                \o tagged(s.constraints.tier3, "tier3"),
                             [tier1 |-> <<>>, tier2 |-> <<>>, tier3 |-> <<>>])
    IN  [s EXCEPT !.intent.gen = gen, !.intent.year_range = yr, !.constraints = tiers]

\* "No listings that violate: " + x
derivedRule(x) ==
    <<"N","o"," ","l","i","s","t","i","n","g","s"," ","t","h","a","t"," ",
      "v","i","o","l","a","t","e",":"," ">> \o x

\* dedupeStrings returning its input as it is
dedupeStrings_keepAll(xs) == xs

RECURSIVE dedupeInto(_, _)
dedupeInto(itemsLeft, out) ==
    IF itemsLeft = <<>> THEN out
    ELSE LET x == Head(itemsLeft)
             n == normalizeLine(x)
         IN  IF n = <<>> \/ (\E i \in 1..Len(out) : normalizeLine(out[i]) = n)
             THEN dedupeInto(Tail(itemsLeft), out)
             ELSE dedupeInto(Tail(itemsLeft), Append(out, trim(x)))

dedupeStrings(xs) == dedupeInto(xs, <<>>)

computeCanonicalBoundary(s) ==
    LET tier1 == s.constraints.tier1
        derived == [i \in 1..Len(tier1) |-> derivedRule(tier1[i])]
    IN  [tier1 |-> tier1,
         tier2 |-> s.constraints.tier2,
         hard_rejections |-> dedupeStrings(s.rejection_rules \o derived)]

\* ------------------------------------------------------------------------
\* exploreSeed.ts
\* ------------------------------------------------------------------------
DigitVal(c) == CHOOSE n \in 0..9 : ToString(n) = c

\* parseInt(digits, 10)
RECURSIVE parseInt(_)
parseInt(ds) ==
    IF ds = <<>> THEN 0 ELSE parseInt(SubSeq(ds, 1, Len(ds) - 1)) * 10 + DigitVal(ds[Len(ds)])

\* the set's least element
least(S) == CHOOSE x \in S : \A y \in S : x <= y

\* all.match(/\b(19|20)\d{2}\s*[-EN_DASH]\s*(19|20)\d{2}\b/), then
\* split(/[-EN_DASH]/).map(x => parseInt(x.trim(), 10)): <<yearMin, yearMax>>
seedYears(all) ==
    LET split(m) ==
            IF m = <<>> THEN <<NoNum, NoNum>>
            ELSE <<parseInt(SubSeq(m, 1, 4)), parseInt(SubSeq(m, Len(m) - 3, Len(m)))>>
    IN  split(matchYearRange(all, {"-", EN_DASH}, FALSE))

c_speed_yellow == <<"s", "p", "e", "e", "d", " ", "y", "e", "l", "l", "o", "w">>
c_guards_red == <<"g", "u", "a", "r", "d", "s", " ", "r", "e", "d">>
c_arctic_silver == <<"a", "r", "c", "t", "i", "c", " ", "s", "i", "l", "v", "e", "r">>
c_black == <<"b", "l", "a", "c", "k">>
c_white == <<"w", "h", "i", "t", "e">>
c_yellow == <<"y", "e", "l", "l", "o", "w">>
c_silver == <<"s", "i", "l", "v", "e", "r">>
c_blue == <<"b", "l", "u", "e">>

\* the alternatives of the colour pattern, in the order the pattern tries them
ColorVocabulary == <<c_speed_yellow, c_guards_red, c_arctic_silver, c_black,
                     c_white, c_yellow, c_silver, c_blue>>

\* all.match(/speed yellow|guards red|...|blue/): leftmost position, first
\* alternative that matches there
seedColor(all) ==
    LET hits == {i \in 1..Len(all) :
                    \E k \in 1..Len(ColorVocabulary) : startsAt(all, i, ColorVocabulary[k])}
    IN  IF hits = {} THEN <<>>
        ELSE LET i == least(hits)
                 k == least({j \in 1..Len(ColorVocabulary) :
                                startsAt(all, i, ColorVocabulary[j])})
             IN  ColorVocabulary[k]

w_under == <<"u", "n", "d", "e", "r">>
w_max_budget == <<"m", "a", "x", " ", "b", "u", "d", "g", "e", "t">>
w_salt_road_dash == <<"s", "a", "l", "t", "-", "r", "o", "a", "d">>
w_salt_road == <<"s", "a", "l", "t", " ", "r", "o", "a", "d">>
w_northern == <<"n", "o", "r", "t", "h", "e", "r", "n">>
w_rust == <<"r", "u", "s", "t">>

\* the number captured at position j by (\d{2,3})k, as <<digits, position after k>>
\* or <<>>; needBoundary adds the \b after k
kNumberAt(t, j, needBoundary) ==
    LET ok(n) == /\ \A d \in 0..(n - 1) : IsDigit(at(t, j + d))
                 /\ at(t, j + n) = "k"
                 /\ (~needBoundary \/ boundary(t, j + n))
    IN  IF ok(3) THEN <<SubSeq(t, j, j + 2), j + 4>>
        ELSE IF ok(2) THEN <<SubSeq(t, j, j + 1), j + 3>>
        ELSE <<>>

\* all.match(/under\s*(\d{2,3})k\s*word/): the captured number, or NoNum
seedMileage(all, word) ==
    LET cap(i) == IF ~startsAt(all, i, w_under) THEN <<>>
                  ELSE LET n == kNumberAt(all, skipSpaces(all, i + 5), FALSE)
                       IN  IF n # <<>> /\ startsAt(all, skipSpaces(all, n[2]), word)
                           THEN n[1] ELSE <<>>
        hits == {i \in 1..Len(all) : cap(i) # <<>>}
    IN  IF hits = {} THEN NoNum ELSE parseInt(cap(least(hits))) * 1000

\* all.match(/\bmax budget\s*\$?\s*(\d{2,3})k\b/): the captured number, or NoNum
seedBudgetText(all) ==
    LET cap(i) == IF ~(startsAt(all, i, w_max_budget) /\ boundary(all, i - 1)) THEN <<>>
                  ELSE LET j == skipSpaces(all, i + Len(w_max_budget))
                           j2 == IF at(all, j) = "$" THEN skipSpaces(all, j + 1) ELSE j
                           n == kNumberAt(all, j2, TRUE)
                       IN  IF n # <<>> THEN n[1] ELSE <<>>
        hits == {i \in 1..Len(all) : cap(i) # <<>>}
    IN  IF hits = {} THEN NoNum ELSE parseInt(cap(least(hits))) * 1000

deriveExploreSeed(s) ==
    LET seedOf(all, yrs, budgetAny, budgetText) ==
            [make |-> s.intent.make,
             model |-> s.intent.model,
             trim |-> s.intent.trim,
             yearMin |-> yrs[1],
             yearMax |-> yrs[2],
             transmission |->
                IF includes(all, kw_manual) THEN "manual"
                ELSE IF \/ includes(all, kw_automatic) \/ includes(all, kw_pdk)
                        \/ includes(all, kw_dsg)
                     THEN "automatic"
                ELSE "either",
             exteriorColor |-> seedColor(all),
             avoidSaltHistory |->
                \/ includes(all, w_salt_road_dash) \/ includes(all, w_salt_road)
                \/ includes(all, w_northern) \/ includes(all, w_rust),
             mileageIdealMax |-> seedMileage(all, w_ideal),
             mileageOkMax |-> seedMileage(all, w_acceptable),
             budgetMaxUsd |->
                IF Truthy(budgetAny) THEN budgetAny
                ELSE IF budgetText # NoNum THEN budgetText
                ELSE budgetAny]
        fromText(all) == seedOf(all, seedYears(all), s.intent.budget, seedBudgetText(all))
    IN  fromText(toLowerCase(allTextOf(s.constraints)))

\* ------------------------------------------------------------------------
\* watch.ts and watchStore.ts
\* ------------------------------------------------------------------------
\* a lookup that never finds the key
getWatch_miss(st, key) == NoWatch

\* store.get(key): the stored spec, or NoWatch
getWatch(st, key) ==
    IF \E e \in st : e.key = key THEN (CHOOSE e \in st : e.key = key).watch ELSE NoWatch

\* a store that keeps only the entry written last
setWatch_single(st, key, watch) == {[key |-> key, watch |-> watch]}

\* store.set(key, watch)
setWatch(st, key, watch) ==
    {e \in st : e.key # key} \cup {[key |-> key, watch |-> watch]}

\* an upsert that stores a new specification without looking the key up
ensureWatch_noLookup(s, st) ==
    LET canonical == computeCanonicalBoundary(s)
        keyOf(spec) ==
            [goal |-> s.goal_type, must_have |-> spec.must_have,
             acceptable |-> spec.acceptable, reject |-> spec.reject,
             sources |-> spec.sources]
        stored(spec, key) ==
            [watch |-> spec, created |-> TRUE, store |-> setWatch(st, key, spec),
             key |-> key]
        keyed(spec) == stored(spec, keyOf(spec))
    IN  keyed([kind |-> "spec",
               must_have |-> canonical.tier1,
               acceptable |-> canonical.tier2,
               reject |-> canonical.hard_rejections,
               sources |-> <<"auto.dev">>])

\* ensureWatch: the spec returned, the created flag and the store afterwards
ensureWatch(s, st) ==
    LET specOf(canonical) ==
            [kind |-> "spec",
             must_have |-> canonical.tier1,
             acceptable |-> canonical.tier2,
             reject |-> canonical.hard_rejections,
             sources |-> <<"auto.dev">>]
        keyOf(spec) ==
            [goal |-> s.goal_type, must_have |-> spec.must_have,
             acceptable |-> spec.acceptable, reject |-> spec.reject,
             sources |-> spec.sources]
        ensured(spec, key, existing) ==
            IF existing # NoWatch
            THEN [watch |-> existing, created |-> FALSE, store |-> st, key |-> key]
            ELSE [watch |-> spec, created |-> TRUE, store |-> setWatch(st, key, spec),
                  key |-> key]
        lookedUp(spec, key) == ensured(spec, key, getWatch(st, key))
        keyed(spec) == lookedUp(spec, keyOf(spec))
    IN  keyed(specOf(computeCanonicalBoundary(s)))

\* ------------------------------------------------------------------------
\* decide.ts
\* ------------------------------------------------------------------------
\* a selection that takes the first candidate of the list
topByScore_first(arr) == arr[1]

topByScore(arr) == sortDesc(arr)[1]

w_not_confirmed == <<"n", "o", "t", " ", "c", "o", "n", "f", "i", "r", "m", "e", "d">>

\* every rationale line of the candidates, in list order
RECURSIVE rationaleLines(_)
rationaleLines(cs) ==
    IF cs = <<>> THEN <<>> ELSE Head(cs).rationale \o rationaleLines(Tail(cs))

RECURSIVE blockersFrom(_, _, _)
blockersFrom(lines, out, max) ==
    IF lines = <<>> \/ Len(out) >= max THEN out
    ELSE LET t == trim(Head(lines))
             fresh == /\ t # <<>>
                      /\ includes(toLowerCase(t), w_not_confirmed)
                      /\ ~\E i \in 1..Len(out) : toLowerCase(out[i]) = toLowerCase(t)
         IN  blockersFrom(Tail(lines), IF fresh THEN Append(out, t) ELSE out, max)

\* extractBlockers without its limit of 4
extractBlockers_uncapped(cs) == blockersFrom(rationaleLines(cs), <<>>, Len(rationaleLines(cs)) + 1)

extractBlockers(cs) == blockersFrom(rationaleLines(cs), <<>>, 4)

decide(s) ==
    IF Len(s.finalists) > 0
    THEN [action |-> "ACT", selected |-> topByScore(s.finalists)]
    ELSE IF Len(s.discovery) > 0
    THEN [action |-> "WATCH",
          watchSeedSummary |-> computeCanonicalBoundary(s).tier1,
          blockers |-> extractBlockers(s.discovery)]
    ELSE [action |-> "REVISE"]

\* ------------------------------------------------------------------------
\* liveExplore.ts
\* ------------------------------------------------------------------------
\* LIVE_SEARCH_TOPN, default "50"
topN == 50

RECURSIVE dedupeFrom(_, _)
dedupeFrom(listings, seen) ==
    IF listings = <<>> THEN <<>>
    ELSE LET l == Head(listings)
             vin == trim(l.vin)
             url == trim(l.url)
             key == IF vin # <<>> THEN <<"vin:">> \o vin
                    ELSE IF url # <<>> THEN <<"url:">> \o url ELSE <<>>
         IN  IF key = <<>> \/ key \in seen THEN dedupeFrom(Tail(listings), seen)
             ELSE <<l>> \o dedupeFrom(Tail(listings), seen \cup {key})

\* String(n) for a natural number
RECURSIVE numStr(_)
numStr(n) == IF n < 10 THEN <<ToString(n)>> ELSE numStr(n \div 10) \o <<ToString(n % 10)>>

RECURSIVE joinPipe(_)
joinPipe(parts) ==
    IF parts = <<>> THEN <<>>
    ELSE IF Len(parts) = 1 THEN Head(parts)
    ELSE Head(parts) \o <<"|">> \o joinPipe(Tail(parts))

\* parts.filter(Boolean).join("|"); the FNV hash of the joined string is
\* taken to be injective
stableId(l) ==
    LET num(n) == IF Truthy(n) THEN numStr(n) ELSE <<>>
        parts == <<l.vin, l.url, num(l.year), l.make, l.model, l.trim, num(l.price)>>
    IN  joinPipe(SelectSeq(parts, LAMBDA x : x # <<>>))

\* a retrieval result passed on as it arrived
dedupeListingsByVinOrUrl_none(listings) == listings

dedupeListingsByVinOrUrl(listings) == dedupeFrom(listings, {})

\* deduped.slice(0, topN): the records that are scored, for a batch size n
scoredRecords(listings, n) == slice(dedupeListingsByVinOrUrl(listings), n)

\* the part of runLiveExplore that runs once the listings have arrived
exploreResult(s, sd, listings) ==
    LET sliced == scoredRecords(listings, topN)
        its == [i \in 1..Len(sliced) |->
                  [sig |-> listingToSignals(sliced[i]),
                   candidate |-> buildCandidateFromSignals(stableId(sliced[i]))]]
        result == scoreAndTier(sd, its)
    IN  [s EXCEPT !.finalists = result.finalists, !.discovery = result.discovery]

\* ------------------------------------------------------------------------
\* app/api/chat/route.ts
\* ------------------------------------------------------------------------
NoCmd == "null"

parseUserCommand_anyState(userMessage, priorState) ==
    LET t == toLowerCase(trim(userMessage)) IN
    IF testLeading(kw_confirm, t) THEN "S3_EXPLORE"
    ELSE IF testLeading(kw_watch, t) THEN "S5_WATCH"
    ELSE IF testLeading(kw_act, t) \/ testLeading(kw_decide, t) THEN "S4_DECIDE"
    ELSE IF testLeading(kw_revise, t) THEN "S1_CAPTURE"
    ELSE NoCmd

parseUserCommand(userMessage, priorState) ==
    LET t == toLowerCase(trim(userMessage)) IN
    IF priorState = "S2_CONFIRM" /\ testLeading(kw_confirm, t) THEN "S3_EXPLORE"
    ELSE IF priorState = "S3_EXPLORE" /\ testLeading(kw_watch, t) THEN "S5_WATCH"
    ELSE IF priorState = "S3_EXPLORE"
            /\ (testLeading(kw_act, t) \/ testLeading(kw_decide, t) \/ testLeading(kw_confirm, t))
         THEN "S4_DECIDE"
    ELSE IF priorState = "S4_DECIDE" /\ testLeading(kw_watch, t) THEN "S5_WATCH"
    ELSE IF priorState \in {"S2_CONFIRM", "S4_DECIDE"} /\ testLeading(kw_revise, t)
         THEN "S1_CAPTURE"
    ELSE NoCmd

\* an optional field of the model's patch: <<>> when absent, <<v>> when present
orElse(opt, dflt) == IF opt = <<>> THEN dflt ELSE opt[1]

NoPatch == [present |-> FALSE]

mergePatch(s, patch) ==
    LET i1 == IF patch.intent
              THEN [s.intent EXCEPT
                      !.make = orElse(patch.make, @),
                      !.model = orElse(patch.model, @),
                      !.trim = orElse(patch.trim, @),
                      !.gen = orElse(patch.gen, @),
                      !.year_range = orElse(patch.year_range, @),
                      !.budget = orElse(patch.budget, @)]
              ELSE s.intent
        c1 == IF patch.constraints
              THEN [tier1 |-> orElse(patch.tier1, s.constraints.tier1),
                    tier2 |-> orElse(patch.tier2, s.constraints.tier2),
                    tier3 |-> orElse(patch.tier3, s.constraints.tier3)]
              ELSE s.constraints
        r1 == IF patch.taste THEN orElse(patch.rejection_rules, s.rejection_rules)
              ELSE s.rejection_rules
    IN  [s EXCEPT !.intent = i1, !.constraints = c1, !.rejection_rules = r1]

ph_must == <<"(", "d", "e", "f", "i", "n", "e", " ", "m", "u", "s", "t", "-", "h", "a", "v", "e", " ", "c", "o", "n", "s", "t", "r", "a", "i", "n", "t", "s", ")">>
ph_acceptable == <<"(", "d", "e", "f", "i", "n", "e", " ", "s", "t", "r", "o", "n", "g", " ", "p", "r", "e", "f", "e", "r", "e", "n", "c", "e", "s", ")">>
ph_reject == <<"(", "d", "e", "f", "i", "n", "e", " ", "r", "e", "j", "e", "c", "t", "i", "o", "n", "s", ")">>
ph_rationale == <<"p", "l", "a", "c", "e", "h", "o", "l", "d", "e", "r">>

placeholder(id, verdict, score) ==
    [id |-> <<"p", "h", "-", id>>, verdict |-> verdict, score |-> score,
     rationale |-> <<ph_rationale>>, is_placeholder |-> TRUE]

runStubStep(s) ==
    CASE s.state \in {"S1_CAPTURE", "S2_CONFIRM", "S4_DECIDE"} -> s
      [] s.state = "S3_EXPLORE" ->
            [s EXCEPT
               !.finalists = <<placeholder("A", "ACCEPT", 90),
                               placeholder("B", "CONDITIONAL", 76),
                               placeholder("C", "REJECT", 40)>>,
               !.discovery = <<placeholder("D", "CONDITIONAL", 65)>>]
      [] s.state = "S5_WATCH" ->
            [s EXCEPT !.watch =
               [kind |-> "spec",
                must_have |-> IF Len(s.constraints.tier1) > 0 THEN s.constraints.tier1
                              ELSE <<ph_must>>,
                acceptable |-> IF Len(s.constraints.tier2) > 0 THEN s.constraints.tier2
                               ELSE <<ph_acceptable>>,
                reject |-> IF Len(s.rejection_rules) > 0 THEN s.rejection_rules
                           ELSE <<ph_reject>>,
                sources |-> <<"Bring a Trailer", "Cars & Bids", "AutoTempest",
                              "Enthusiast forums/classifieds">>]]
      [] OTHER -> [s EXCEPT !.state = "S7_CLOSE"]

IdleReq == [pc |-> "idle"]

NoResp == [path |-> "none", from |-> "none", created |-> FALSE]

\* NextResponse.json(...) received by Chat.tsx: setSession(data.session)
Respond(s, path, created) ==
    /\ session' = s
    /\ req' = IdleReq
    /\ resp' = [path |-> path, from |-> session.state, created |-> created]

Send_autoFirst(userMessage) ==
    /\ req.pc = "idle"
    /\ \E auto \in {nextExecState(session)} :
          LET cmd == parseUserCommand(userMessage, auto)
              routed == IF cmd # NoCmd THEN cmd ELSE auto
          IN  req' = [pc |-> "model", userMessage |-> userMessage, cmd |-> cmd,
                      routed |-> routed,
                      working |-> [session EXCEPT !.state = routed]]
    /\ resp' = NoResp
    /\ UNCHANGED <<session, store>>

\* POST up to the model call: command routing or the automatic transition
Send(userMessage) ==
    /\ req.pc = "idle"
    /\ \E cmd \in {parseUserCommand(userMessage, session.state)} :
          LET routed == IF cmd # NoCmd THEN cmd ELSE nextExecState(session)
          IN  req' = [pc |-> "model", userMessage |-> userMessage, cmd |-> cmd,
                      routed |-> routed,
                      working |-> [session EXCEPT !.state = routed]]
    /\ resp' = NoResp
    /\ UNCHANGED <<session, store>>

\* the merge taking tier1 and tier2 from the boundary the model proposes
merged_modelBoundary(working, modelData) ==
    IF modelData.boundary.present
    THEN normalizeSession([working EXCEPT !.constraints.tier1 = modelData.boundary.tier1,
                                          !.constraints.tier2 = modelData.boundary.tier2])
    ELSE normalizeSession(working)

\* the session after the patch, the model's watch and normalizeSession
merged(working, modelData) ==
    LET w1 == IF modelData.patch.present THEN mergePatch(working, modelData.patch)
              ELSE working
        w2 == IF modelData.watch # NoWatch THEN [w1 EXCEPT !.watch = modelData.watch]
              ELSE w1
    IN  normalizeSession(w2)

\* the end of the explore step without the advance to S4_DECIDE
exploreDone_keepState(explored) == [explored EXCEPT !.decision = decide(explored)]

\* the end of the live-explore branch: explored.state, decide(explored)
exploreDone(explored) ==
    LET e1 == [explored EXCEPT !.state = "S4_DECIDE"]
    IN  [e1 EXCEPT !.decision = decide(e1)]

\* a seed check that lets every seed through
insufficientSeed_never(sd) == FALSE

\* runLiveExplore: !seed.make || !seed.model, on which it throws before
\* searchAutoDevListings is called
insufficientSeed(sd) == sd.make = <<>> \/ sd.model = <<>>

\* POST after a model output that parses and matches the schema
\* POST from the merge of the model's output to its return or to the call of
\* runLiveExplore: the session, store, request and response it leaves
modelOutcome(s, st, rq, rs, modelData) ==
    LET responded(out, path, created, st2) ==
            [session |-> out, store |-> st2, req |-> IdleReq,
             resp |-> [path |-> path, from |-> s.state, created |-> created]]
        watched(working, ew) ==
            responded([working EXCEPT !.watch = ew.watch, !.state = "S5_WATCH"],
                      "watch", ew.created, ew.store)
        explore(working, sd) ==
            IF insufficientSeed(sd)
            THEN responded(exploreDone(working), "explore-insufficient", FALSE, st)
            ELSE [session |-> s, store |-> st,
                  req |-> [rq EXCEPT !.pc = "retrieval", !.working = working],
                  resp |-> rs]
        after(working) ==
            IF /\ working.state \in {"S4_DECIDE", "S5_WATCH"}
               /\ includes(toLowerCase(rq.userMessage), kw_watch)
            THEN watched(working, ensureWatch(working, st))
            ELSE IF working.state = "S3_EXPLORE"
            THEN explore(working, deriveExploreSeed(working))
            ELSE responded([working EXCEPT
                               !.finalists = clampFinalists(working.finalists),
                               !.discovery = clampDiscovery(working.discovery)],
                           "render", FALSE, st)
    IN  after(merged(rq.working, modelData))

ModelResponds(modelData) ==
    /\ req.pc = "model"
    /\ \E o \in {modelOutcome(session, store, req, resp, modelData)} :
          /\ session' = o.session
          /\ store' = o.store
          /\ req' = o.req
          /\ resp' = o.resp

\* the fallback taken after the model's output has been merged
ModelFails_afterMerge ==
    /\ req.pc = "model"
    /\ Respond(runStubStep(merged(req.working,
                                   [patch |-> [present |-> TRUE, intent |-> FALSE,
                                               constraints |-> TRUE, taste |-> FALSE,
                                               tier1 |-> <<<<w_must>>>>, tier2 |-> <<>>,
                                               tier3 |-> <<>>],
                                    watch |-> NoWatch])),
               "fallback", FALSE)
    /\ UNCHANGED store

\* the catch of POST: the model call failed, or its output is not JSON or
\* does not match the schema
ModelFails ==
    /\ req.pc = "model"
    /\ Respond(runStubStep(req.working), "fallback", FALSE)
    /\ UNCHANGED store

\* an explore step that decides on the lists the session had before the
\* listings arrived
RetrievalResponds_decideBefore(listings) ==
    /\ req.pc = "retrieval"
    /\ Respond([exploreDone(exploreResult(req.working, deriveExploreSeed(req.working),
                                          listings))
                  EXCEPT !.decision = decide(req.working)],
               "explore-live", FALSE)
    /\ UNCHANGED store

\* the retrieval call resolved before the timeout
RetrievalResponds(listings) ==
    /\ req.pc = "retrieval"
    /\ Respond(exploreDone(exploreResult(req.working, deriveExploreSeed(req.working),
                                         listings)),
               "explore-live", FALSE)
    /\ UNCHANGED store

\* the retrieval call rejected, or the timeout fired first
RetrievalFails ==
    /\ req.pc = "retrieval"
    /\ Respond(exploreDone(req.working), "explore-failed", FALSE)
    /\ UNCHANGED store

\* ------------------------------------------------------------------------
\* Inputs of the turn: sessions, user messages, model outputs, listings
\* ------------------------------------------------------------------------
ln_manual == <<"M", "a", "n", "u", "a", "l", " ", "o", "n", "l", "y">>
ln_clean == <<"c", "l", "e", "a", "n", " ", "t", "i", "t", "l", "e">>
ln_clean_dup == <<"C", "l", "e", "a", "n", " ", " ", "T", "i", "t", "l", "e", " ">>
ln_yellow == <<"m", "u", "s", "t", " ", "b", "e", " ", "y", "e", "l", "l", "o", "w">>
ln_prefer == <<"p", "r", "e", "f", "e", "r", " ", "l", "o", "w", " ", "m", "i", "l", "e", "s">>

mk_Porsche == <<"P", "o", "r", "s", "c", "h", "e">>
mk_Honda == <<"H", "o", "n", "d", "a">>
md_Boxster == <<"B", "o", "x", "s", "t", "e", "r">>
md_Civic == <<"C", "i", "v", "i", "c">>
tr_S == <<"S">>
tx_Manual == <<"M", "a", "n", "u", "a", "l">>
tx_Automatic == <<"A", "u", "t", "o", "m", "a", "t", "i", "c">>
tx_CVT == <<"C", "V", "T">>
col_SpeedYellow == <<"S", "p", "e", "e", "d", " ", "Y", "e", "l", "l", "o", "w">>
col_Black == <<"B", "l", "a", "c", "k">>
st_CA == <<"C", "A">>

seed_porsche == <<"p", "o", "r", "s", "c", "h", "e">>
seed_boxster == <<"b", "o", "x", "s", "t", "e", "r">>
seed_yellow == <<"y", "e", "l", "l", "o", "w">>

SigValues ==
    [year |-> {NoNum, 2003, 2005},
     make |-> {<<>>, mk_Porsche, mk_Honda},
     model |-> {<<>>, md_Boxster, md_Civic},
     trim |-> {<<>>, tr_S},
     transmission |-> {<<>>, tx_Manual, tx_Automatic, tx_CVT},
     exteriorColor |-> {<<>>, col_SpeedYellow, col_Black},
     price |-> {NoNum, 25000, 35000},
     miles |-> {NoNum, 40000, 60000, 90000},
     state |-> {<<>>, st_CA}]

\* the listing that meets every requirement of the richest seed
BaseSig ==
    [year |-> 2003, make |-> mk_Porsche, model |-> md_Boxster, trim |-> tr_S,
     transmission |-> tx_Manual, exteriorColor |-> col_SpeedYellow,
     price |-> 25000, miles |-> 40000, state |-> st_CA]

SigFields == DOMAIN SigValues

deviations(f) == Cardinality({k \in SigFields : f[k] # BaseSig[k]})

FullSigs ==
    {[year |-> y, make |-> mk, model |-> md, trim |-> tr, transmission |-> tx,
      exteriorColor |-> col, price |-> pr, miles |-> mi, state |-> st] :
        y \in SigValues.year, mk \in SigValues.make, md \in SigValues.model,
        tr \in SigValues.trim, tx \in SigValues.transmission,
        col \in SigValues.exteriorColor, pr \in SigValues.price,
        mi \in SigValues.miles, st \in SigValues.state}

\* every listing that differs from BaseSig in at most MaxDeviations fields
SigDomain == {listingToSignals(f) : f \in {g \in FullSigs : deviations(g) <= MaxDeviations}}

NoIntent == [make |-> <<>>, model |-> <<>>, trim |-> <<>>, gen |-> <<>>,
             year_range |-> <<>>, budget |-> NoNum]

BoxsterIntent == [NoIntent EXCEPT !.make = mk_Porsche, !.model = md_Boxster, !.trim = tr_S]

NoConstraints == [tier1 |-> <<>>, tier2 |-> <<>>, tier3 |-> <<>>]

\* newSession() of Chat.tsx, in a given state
newSession(state) ==
    [state |-> state, goal_type |-> "vehicle_hunt", intent |-> NoIntent,
     constraints |-> NoConstraints, rejection_rules |-> <<>>,
     finalists |-> <<>>, discovery |-> <<>>, watch |-> NoWatch,
     decision |-> NoDecision]

cand(id, verdict, score) ==
    [id |-> <<"i", "n", "-", id>>, verdict |-> verdict, score |-> score,
     rationale |-> <<withArg(r_color_not_confirmed, c_yellow)>>, is_placeholder |-> FALSE]

\* candidate lists a request may carry
OneConditional == <<cand("1", "CONDITIONAL", 60)>>
OneDiscovery == <<cand("7", "CONDITIONAL", 40)>>
SixFinalists == <<cand("1", "CONDITIONAL", 60), cand("2", "ACCEPT", 80),
                  cand("3", "CONDITIONAL", 55), cand("4", "CONDITIONAL", 70),
                  cand("5", "ACCEPT", 90), cand("6", "CONDITIONAL", 65)>>
FourDiscovery == <<cand("7", "CONDITIONAL", 40), cand("8", "CONDITIONAL", 66),
                   cand("9", "CONDITIONAL", 52), cand("0", "CONDITIONAL", 58)>>

\* the contents of the sessions a request may carry: a new session, an
\* explored one, and one that carries more candidates than the caps allow
SessionContents ==
    {newSession("S0_INIT"),
     [newSession("S0_INIT") EXCEPT
        !.intent = BoxsterIntent,
        !.constraints.tier1 = <<ln_manual, ln_clean, ln_yellow>>,
        !.finalists = OneConditional,
        !.discovery = OneDiscovery],
     [newSession("S0_INIT") EXCEPT
        !.intent = BoxsterIntent,
        !.constraints.tier1 = <<ln_manual, ln_clean, ln_yellow>>,
        !.finalists = SixFinalists,
        !.discovery = FourDiscovery]}

InitSessions == {[c EXCEPT !.state = st] : c \in SessionContents, st \in AgentState}

m_confirm == <<"c", "o", "n", "f", "i", "r", "m">>
m_WATCH == <<" ", "W", "A", "T", "C", "H", " ">>
m_mid_watch == <<"I", " ", "w", "i", "l", "l", " ", "w", "a", "t", "c", "h", " ", "i", "t">>
m_decide == <<"D", "e", "c", "i", "d", "e", " ", "n", "o", "w">>
m_revise == <<"R", "e", "v", "i", "s", "e">>
m_hello == <<"h", "e", "l", "l", "o">>
m_act == <<"A", "c", "t">>
m_watchlist == <<"w", "a", "t", "c", "h", "l", "i", "s", "t">>

UserMessages == {m_confirm, m_WATCH, m_mid_watch, m_watchlist, m_decide, m_act, m_revise,
                 m_hello}

\* model outputs that parse and match ModelResponseSchema
TierPatch(t1) ==
    [present |-> TRUE, intent |-> FALSE, constraints |-> TRUE, taste |-> FALSE,
     make |-> <<>>, model |-> <<>>, trim |-> <<>>, gen |-> <<>>, year_range |-> <<>>,
     budget |-> <<>>, tier1 |-> <<t1>>, tier2 |-> <<>>, tier3 |-> <<>>,
     rejection_rules |-> <<>>]

ModelWatch ==
    [kind |-> "spec", must_have |-> <<ln_yellow>>, acceptable |-> <<>>,
     reject |-> <<>>, sources |-> <<>>]

\* BoundarySchema of the model's output: the boundary the model proposes
NoBoundary == [present |-> FALSE]

ModelBoundary ==
    [present |-> TRUE, tier1 |-> <<ln_prefer>>, tier2 |-> <<ln_yellow>>,
     hard_rejections |-> <<r_manual>>, acceptable_compromises |-> <<ln_clean>>]

ModelOutputs ==
    {[patch |-> d[1], watch |-> d[2], boundary |-> b] :
        d \in {<<NoPatch, NoWatch>>,
               <<TierPatch(<<ln_manual, ln_clean, ln_clean_dup, ln_yellow, ln_prefer>>), NoWatch>>,
               <<NoPatch, ModelWatch>>},
        b \in {NoBoundary, ModelBoundary}}

listing(vin, f) ==
    [vin |-> vin, url |-> <<>>, year |-> f.year, make |-> f.make, model |-> f.model,
     trim |-> f.trim, transmission |-> f.transmission,
     exteriorColor |-> f.exteriorColor, price |-> f.price, miles |-> f.miles,
     state |-> f.state]

\* retrieval results
ListingBatches ==
    {<<>>,
     <<listing(<<"V", "2">>, [BaseSig EXCEPT !.exteriorColor = col_Black]),
       listing(<<"V", "3">>, [BaseSig EXCEPT !.make = mk_Honda, !.model = md_Civic])>>}

InitTurn ==
    /\ session \in InitSessions
    /\ store = {}
    /\ req = IdleReq
    /\ resp = NoResp
    /\ parked = <<>>
    /\ seed = 0 /\ items = 0 /\ tiered = 0 /\ retrieval = 0

NextTurn ==
    \/ \E m \in UserMessages : Send(m) /\ UNCHANGED <<scoreVars, parked, retrieval>>
    \/ \E d \in ModelOutputs : ModelResponds(d) /\ UNCHANGED <<scoreVars, parked, retrieval>>
    \/ ModelFails /\ UNCHANGED <<scoreVars, parked, retrieval>>
    \/ \E ls \in ListingBatches : RetrievalResponds(ls) /\ UNCHANGED <<scoreVars, parked, retrieval>>
    \/ RetrievalFails /\ UNCHANGED <<scoreVars, parked, retrieval>>

Spec == InitTurn /\ [][NextTurn]_vars

\* ------------------------------------------------------------------------
\* Inputs of the scoring engine
\* ------------------------------------------------------------------------
mkSeed(make, model, yr, trm, transmission, exteriorColor, budget, mil, salt) ==
    [make |-> make, model |-> model, yearMin |-> yr[1], yearMax |-> yr[2],
     trim |-> trm, transmission |-> transmission, exteriorColor |-> exteriorColor,
     budgetMaxUsd |-> budget, mileageIdealMax |-> mil[1], mileageOkMax |-> mil[2],
     avoidSaltHistory |-> salt]

\* the salt advisory is requested together with the mileage bands
SeedDomain ==
    {mkSeed(mk, md, yr, tr, tx, col, b, mil, mil # <<NoNum, NoNum>>) :
        mk \in {<<>>, seed_porsche},
        md \in {<<>>, seed_boxster},
        yr \in {<<NoNum, NoNum>>, <<2003, 2004>>},
        tr \in {<<>>, tr_S},
        tx \in {"manual", "automatic", "either"},
        col \in {<<>>, seed_yellow},
        b \in {NoNum, 30000},
        mil \in {<<NoNum, NoNum>>, <<50000, 80000>>}}

NoSeed == mkSeed(<<>>, <<>>, <<NoNum, NoNum>>, <<>>, "either", <<>>, NoNum,
                 <<NoNum, NoNum>>, FALSE)

NoTiered == [finalists |-> <<>>, discovery |-> <<>>, rejected |-> <<>>]

InitScore ==
    /\ seed = NoSeed
    /\ items = <<>>
    /\ tiered = NoTiered
    /\ session = 0 /\ store = 0 /\ req = 0 /\ resp = 0 /\ parked = 0 /\ retrieval = 0

\* scoreAndTier applied to one listing
ScoreListing ==
    /\ items = <<>>
    /\ \E sd \in SeedDomain, sig \in SigDomain :
          LET its == <<[sig |-> sig, candidate |-> buildCandidateFromSignals(numStr(1))]>>
          IN  /\ seed' = sd
              /\ items' = its
              /\ tiered' = scoreAndTier(sd, its)
    /\ UNCHANGED turnVars

\* the seed of the batches: every requirement set
BatchSeed == mkSeed(seed_porsche, seed_boxster, <<2003, 2004>>, tr_S, "manual",
                    seed_yellow, 30000, <<50000, 80000>>, TRUE)

\* listings of a batch: two that pass tier 1 with different scores and two
\* that do not
BatchSigs ==
    {listingToSignals(f) :
        f \in {BaseSig,
               [BaseSig EXCEPT !.miles = 90000],
               [BaseSig EXCEPT !.exteriorColor = col_Black],
               [BaseSig EXCEPT !.exteriorColor = col_Black, !.price = 35000]}}

\* scoreAndTier applied to a batch that is one listing longer
ScoreBatch ==
    /\ Len(items) < MaxBatch
    /\ \A i \in 1..Len(items) : items[i].sig \in BatchSigs
    /\ items = <<>> \/ seed = BatchSeed
    /\ \E sig \in BatchSigs :
          LET its == Append(items, [sig |-> sig,
                        candidate |-> buildCandidateFromSignals(numStr(Len(items) + 1))])
          IN  /\ seed' = BatchSeed
              /\ items' = its
              /\ tiered' = scoreAndTier(BatchSeed, its)
    /\ UNCHANGED turnVars

NextScore == ScoreListing \/ ScoreBatch

SpecScore == InitScore /\ [][NextScore]_vars

\* ------------------------------------------------------------------------
\* Inputs of the decision engine
\* ------------------------------------------------------------------------
DecideScores == {40, 80, 90}

\* candidate lists of at most max entries, ids numbered from first
candLists(max, first) ==
    UNION {{[i \in 1..k |-> cand(ToString(first + i - 1),
                                 IF f[i] >= 75 THEN "ACCEPT" ELSE "CONDITIONAL",
                                 f[i])] : f \in [1..k -> DecideScores]} :
           k \in 0..max}

\* the sessions decide is applied to: every pair of a list of finalists and
\* a list of discovery candidates
DecideSessions ==
    {[newSession("S3_EXPLORE") EXCEPT
        !.constraints.tier1 = <<ln_manual, ln_yellow>>,
        !.finalists = f, !.discovery = d] :
        f \in candLists(MaxDecideFinalists, 1),
        d \in candLists(MaxDecideDiscovery, 6)}

bl_trim == <<"T", "r", "i", "m", " ", "n", "o", "t", " ", "c", "o", "n", "f", "i", "r", "m", "e", "d">>
bl_trim_upper == <<"t", "r", "i", "m", " ", "N", "O", "T", " ", "c", "o", "n", "f", "i", "r", "m", "e", "d">>
bl_color == <<"C", "o", "l", "o", "r", " ", "n", "o", "t", " ", "c", "o", "n", "f", "i", "r", "m", "e", "d">>
bl_year_padded == <<" ", "Y", "e", "a", "r", " ", "n", "o", "t", " ", "c", "o", "n", "f", "i", "r", "m", "e", "d", " ">>
bl_title == <<"T", "i", "t", "l", "e", " ", "n", "o", "t", " ", "c", "o", "n", "f", "i", "r", "m", "e", "d">>
bl_miles == <<"M", "i", "l", "e", "s", " ", "n", "o", "t", " ", "c", "o", "n", "f", "i", "r", "m", "e", "d">>

\* rationales of near-miss candidates: lines with and without "not
\* confirmed", one repeated in another casing, one padded
BlockerRationales ==
    {<<bl_trim, r_price_unknown>>, <<bl_trim_upper, bl_color>>,
     <<bl_year_padded, bl_title>>, <<bl_miles>>}

MaxBlockerCands == 3

\* sessions without finalists whose discovery candidates carry those
\* rationales
BlockerSessions ==
    {[newSession("S3_EXPLORE") EXCEPT
        !.constraints.tier1 = <<ln_manual, ln_yellow>>,
        !.discovery = [i \in 1..Len(rs) |->
                          [cand(ToString(i), "CONDITIONAL", 60) EXCEPT !.rationale = rs[i]]]] :
        rs \in UNION {[1..k -> BlockerRationales] : k \in 1..MaxBlockerCands}}

InitDecide ==
    /\ session \in DecideSessions \cup BlockerSessions
    /\ store = 0 /\ req = 0 /\ resp = 0 /\ parked = 0
    /\ seed = 0 /\ items = 0 /\ tiered = 0 /\ retrieval = 0

\* explored.state = "S4_DECIDE"; explored.decision = decide(explored)
Decide ==
    /\ session.decision = NoDecision
    /\ session' = exploreDone(session)
    /\ UNCHANGED <<store, req, resp, parked, seed, items, tiered, retrieval>>

NextDecide == Decide

SpecDecide == InitDecide /\ [][NextDecide]_vars

\* ------------------------------------------------------------------------
\* Concurrent turns of several sessions on one watch store
\* ------------------------------------------------------------------------
\* the sessions of the concurrent turns: two with the same goal type and
\* boundary in S4_DECIDE and S3_EXPLORE, one with another boundary, and one
\* about to explore
WatchSessions ==
    {[newSession("S4_DECIDE") EXCEPT
        !.intent = BoxsterIntent,
        !.constraints.tier1 = <<ln_manual, ln_clean, ln_yellow>>,
        !.finalists = OneConditional],
     [newSession("S3_EXPLORE") EXCEPT
        !.intent = BoxsterIntent,
        !.constraints.tier1 = <<ln_manual, ln_clean, ln_yellow>>],
     [newSession("S4_DECIDE") EXCEPT
        !.intent = BoxsterIntent,
        !.constraints.tier1 = <<ln_manual, ln_clean>>],
     [newSession("S2_CONFIRM") EXCEPT
        !.intent = BoxsterIntent,
        !.constraints.tier1 = <<ln_manual, ln_clean, ln_yellow>>]}

WatchMessages == {m_WATCH, m_hello}

\* a turn that is not running: the session its client holds, its request
\* and its response
Parked(s, rq, rs) == [session |-> s, req |-> rq, resp |-> rs]

InitWatch ==
    /\ session \in WatchSessions
    /\ store = {}
    /\ req = IdleReq
    /\ resp = NoResp
    /\ parked \in [1..MaxParked -> {Parked(s, IdleReq, NoResp) : s \in WatchSessions}]
    /\ seed = 0 /\ items = 0 /\ tiered = 0 /\ retrieval = 0

\* the event loop leaves the running turn at its await (or after its
\* response) and resumes the turn of another session
Switch(c) ==
    /\ session' = parked[c].session
    /\ req' = parked[c].req
    /\ resp' = parked[c].resp
    /\ parked' = [parked EXCEPT ![c] = Parked(session, req, resp)]
    /\ UNCHANGED <<store, scoreVars, retrieval>>

\* the one request of a session
Request(userMessage) ==
    /\ resp = NoResp
    /\ Send(userMessage)

NextWatch ==
    \/ \E m \in WatchMessages : Request(m) /\ UNCHANGED <<scoreVars, parked, retrieval>>
    \/ ModelResponds([patch |-> NoPatch, watch |-> NoWatch, boundary |-> NoBoundary])
          /\ UNCHANGED <<scoreVars, parked, retrieval>>
    \/ ModelFails /\ UNCHANGED <<scoreVars, parked, retrieval>>
    \/ RetrievalResponds(<<>>) /\ UNCHANGED <<scoreVars, parked, retrieval>>
    \/ RetrievalFails /\ UNCHANGED <<scoreVars, parked, retrieval>>
    \/ \E c \in 1..MaxParked : Switch(c)

SpecWatch == InitWatch /\ [][NextWatch]_vars

\* ------------------------------------------------------------------------
\* Properties
\* ------------------------------------------------------------------------
\* a turn responds in this step
Responding == req.pc # "idle" /\ req'.pc = "idle"

\* C1: nextExecState is total and deterministic: for each of the eight
\* states and any session contents it yields exactly one state of the
\* machine, the session is left as it was (the working copy differs from it
\* in the state alone), and INIT -> CAPTURE, CONFIRM -> EXPLORE,
\* EXPLORE -> DECIDE, WATCH -> CLOSE, ITERATE -> CONFIRM and CLOSE -> CLOSE
\* hold whatever the session holds.
C1_NextExecStateTotal ==
    LET n == nextExecState(session) IN
    /\ session.state \in AgentState
    /\ n \in AgentState
    /\ session.state = "S0_INIT" => n = "S1_CAPTURE"
    /\ session.state = "S1_CAPTURE" => n \in {"S1_CAPTURE", "S2_CONFIRM"}
    /\ session.state = "S2_CONFIRM" => n = "S3_EXPLORE"
    /\ session.state = "S3_EXPLORE" => n = "S4_DECIDE"
    /\ session.state = "S4_DECIDE" => n \in {"S5_WATCH", "S7_CLOSE"}
    /\ session.state = "S5_WATCH" => n = "S7_CLOSE"
    /\ session.state = "S6_ITERATE" => n = "S2_CONFIRM"
    /\ session.state = "S7_CLOSE" => n = "S7_CLOSE"
    /\ (req.pc = "model" /\ req.cmd = NoCmd) =>
            /\ req.routed = n
            /\ req.working = [session EXCEPT !.state = n]

C1_Witness ==
    /\ req.pc = "model"
    /\ req.cmd = NoCmd
    /\ session.state = "S6_ITERATE"
    /\ session.finalists # <<>>
    /\ req.routed = "S2_CONFIRM"

\* C2: a turn that starts in CAPTURE ends in CONFIRM when the incoming
\* session has at least 3 tier1 entries and in CAPTURE otherwise, whatever
\* the user message, the model output or the failure of the turn.
C2_CaptureToConfirm ==
    [][(Responding /\ session.state = "S1_CAPTURE") =>
          session'.state = IF Len(session.constraints.tier1) >= 3
                           THEN "S2_CONFIRM" ELSE "S1_CAPTURE"]_vars

C2_Witness ==
    /\ resp.from = "S1_CAPTURE"
    /\ session.state = "S2_CONFIRM"

\* C3: with no command, a turn that starts in DECIDE is routed to CLOSE when
\* some finalist of the session has verdict ACCEPT and to WATCH otherwise,
\* an empty list and a list of CONDITIONAL or REJECT candidates included.
C3_DecideAutomatic ==
    (req.pc = "model" /\ session.state = "S4_DECIDE" /\ req.cmd = NoCmd) =>
        req.routed = IF \E i \in 1..Len(session.finalists) :
                             session.finalists[i].verdict = "ACCEPT"
                     THEN "S7_CLOSE" ELSE "S5_WATCH"

C3_Witness ==
    /\ req.pc = "model"
    /\ session.state = "S4_DECIDE"
    /\ req.cmd = NoCmd
    /\ session.finalists # <<>>
    /\ req.routed = "S5_WATCH"

\* C4: CLOSE is absorbing: a turn on a session in CLOSE returns a session in
\* CLOSE for any message, model output or failure, and no watch is created
\* in it: the watch store and the session's watch are what they were.
C4_CloseAbsorbing ==
    [][(Responding /\ session.state = "S7_CLOSE") =>
          /\ session'.state = "S7_CLOSE"
          /\ store' = store
          /\ session'.watch = session.watch]_vars

\* C5: the command is evaluated against the prior state before the automatic
\* transition: a keyword recognized for that state (confirm in CONFIRM ->
\* EXPLORE; watch in EXPLORE or DECIDE -> WATCH; act, decide or confirm in
\* EXPLORE -> DECIDE; revise in CONFIRM or DECIDE -> CAPTURE) makes its
\* target the turn's state and nextExecState is not applied; otherwise the
\* turn's state is nextExecState of the prior session.
C5_CommandBeforeAutomatic ==
    req.pc = "model" =>
        LET m == req.userMessage
            from == session.state
            word == CASE m = m_confirm -> "confirm"
                      [] m = m_WATCH -> "watch"
                      [] m = m_decide -> "decide"
                      [] m = m_act -> "act"
                      [] m = m_revise -> "revise"
                      [] OTHER -> "none"
            target ==
                IF from = "S2_CONFIRM" /\ word = "confirm" THEN "S3_EXPLORE"
                ELSE IF from \in {"S3_EXPLORE", "S4_DECIDE"} /\ word = "watch"
                     THEN "S5_WATCH"
                ELSE IF from = "S3_EXPLORE" /\ word \in {"act", "decide", "confirm"}
                     THEN "S4_DECIDE"
                ELSE IF from \in {"S2_CONFIRM", "S4_DECIDE"} /\ word = "revise"
                     THEN "S1_CAPTURE"
                ELSE NoCmd
        IN  /\ req.cmd = target
            /\ req.routed = IF target # NoCmd THEN target ELSE nextExecState(session)
            /\ req.working.state = req.routed

C5_Witness ==
    /\ req.pc = "model"
    /\ session.state = "S2_CONFIRM"
    /\ req.userMessage = m_confirm
    /\ req.routed = "S3_EXPLORE"

\* C6: a message that holds "watch" mid-sentence, not as its leading token,
\* never has the effect of the watch command: the turn does not take the watch request
\* path, the watch store is left as it was, and the session is in WATCH
\* afterwards only when the automatic transition leads there.
C6_NoMidSentenceWatch ==
    [][(Responding /\ req.userMessage = m_mid_watch) =>
          /\ resp'.path # "watch"
          /\ store' = store
          /\ (session'.state = "S5_WATCH" => nextExecState(session) = "S5_WATCH")]_vars

\* C7: for every seed and every list of signal records, scoreAndTier returns
\* at most 5 finalists and at most 3 discovery candidates, each list sorted
\* by descending score and made of the highest-scoring candidates of its
\* class.
C7_CapsSortedTopScores ==
    \A outs \in {[i \in 1..Len(items) |-> scoreOne(seed, items[i])]} :
    \A c \in {<<"finalist", tiered.finalists, 5>>, <<"discovery", tiered.discovery, 3>>} :
    \A all \in {{i \in 1..Len(items) : outs[i].class = c[1]}} :
        LET kept == c[2]
            cap == c[3]
            keptIds == {kept[j].id : j \in 1..Len(kept)}
        IN  /\ Len(kept) <= cap
            /\ Len(kept) = Min(cap, Cardinality(all))
            /\ Cardinality(keptIds) = Len(kept)
            /\ \A j \in 1..(Len(kept) - 1) : kept[j].score >= kept[j + 1].score
            /\ \A j \in 1..Len(kept) : \E i \in all : outs[i].cand = kept[j]
            /\ \A i \in all :
                  outs[i].cand.id \notin keptIds =>
                      \A j \in 1..Len(kept) : kept[j].score >= outs[i].cand.score

C7_Witness ==
    /\ Len(items) >= 6
    /\ Len(tiered.finalists) = 5
    /\ Len(tiered.discovery) = 0
    /\ Len(tiered.rejected) = 0
    /\ items[1].sig.miles = 90000
    /\ tiered.finalists[1].score > tiered.finalists[5].score

\* C8: every session returned by a turn (render, watch request, live explore
\* success or failure, fallback) has at most 5 finalists and at most 3
\* discovery candidates, even when the incoming session carries more.
C8_CapOnEveryPath ==
    resp.path # "none" =>
        /\ Len(session.finalists) <= 5
        /\ Len(session.discovery) <= 3

\* C9: a record whose make (or model) is known and does not match the make
\* (or model) the seed requires is rejected with verdict REJECT and score 0,
\* is in neither finalists nor discovery, and carries the rationale of the
\* identity gate alone, whatever its other attributes are.
C9_IdentityGate ==
    \A i \in 1..Len(items) :
        LET sig == items[i].sig
            id == items[i].candidate.id
            wrongMake == seed.make = seed_porsche /\ sig.make = mk_Honda
            wrongModel == seed.model = seed_boxster /\ sig.model = md_Civic
        IN  (wrongMake \/ wrongModel) =>
                /\ \E j \in 1..Len(tiered.rejected) :
                      /\ tiered.rejected[j].id = id
                      /\ tiered.rejected[j].verdict = "REJECT"
                      /\ tiered.rejected[j].score = 0
                      /\ tiered.rejected[j].rationale =
                            IF wrongMake THEN <<r_wrong_make>> ELSE <<r_wrong_model>>
                /\ \A j \in 1..Len(tiered.finalists) : tiered.finalists[j].id # id
                /\ \A j \in 1..Len(tiered.discovery) : tiered.discovery[j].id # id

C9_Witness ==
    /\ Len(items) = 1
    /\ seed = BatchSeed
    /\ items[1].sig.make = mk_Honda
    /\ items[1].sig.model = md_Boxster
    /\ items[1].sig.exteriorColor = col_SpeedYellow
    /\ Len(tiered.rejected) = 1

\* C10: when the seed requires a year range, a record whose year is missing
\* is not rejected by the year gate: unless another gate rejects it, it is
\* scored and carries the "verify year" rationale line.
C10_MissingYearNotRejected ==
    \A i \in 1..Len(items) :
        (Truthy(seed.yearMin) /\ items[i].sig.year = NoNum) =>
            \A j \in 1..Len(tiered.rejected) :
                tiered.rejected[j].id = items[i].candidate.id =>
                    tiered.rejected[j].rationale # <<r_year_outside>>

\* the record of items[i] is in the rejected list with verdict REJECT and in
\* neither of the other two lists
HardRejected(i) ==
    /\ \E j \in 1..Len(tiered.rejected) :
          /\ tiered.rejected[j].id = items[i].candidate.id
          /\ tiered.rejected[j].verdict = "REJECT"
    /\ \A j \in 1..Len(tiered.finalists) :
          tiered.finalists[j].id # items[i].candidate.id
    /\ \A j \in 1..Len(tiered.discovery) :
          tiered.discovery[j].id # items[i].candidate.id

\* C11: when the seed has a budget ceiling and the price of a record is known
\* and above it, the record is hard-rejected: it is in the rejected list with
\* verdict REJECT and in neither finalists nor discovery.
C11_BudgetGate ==
    \A i \in 1..Len(items) :
        (/\ Truthy(seed.budgetMaxUsd)
         /\ items[i].sig.price # NoNum
         /\ items[i].sig.price > seed.budgetMaxUsd) => HardRejected(i)

\* C12: when the seed requires manual, every record whose transmission is
\* automatic, unrecognised or missing is hard-rejected with score 0 and is in
\* neither finalists nor discovery; when the seed does not require manual, or
\* the record is manual, no record is rejected by the transmission gate.
C12_TransmissionGate ==
    \A i \in 1..Len(items) :
        /\ (/\ seed.transmission = "manual"
            /\ items[i].sig.transmission \in {<<>>, tx_Automatic, tx_CVT}) =>
                /\ HardRejected(i)
                /\ \A j \in 1..Len(tiered.rejected) :
                      tiered.rejected[j].id = items[i].candidate.id =>
                          tiered.rejected[j].score = 0
        /\ (seed.transmission # "manual" \/ items[i].sig.transmission = tx_Manual) =>
                \A j \in 1..Len(tiered.rejected) :
                    tiered.rejected[j].id = items[i].candidate.id =>
                        tiered.rejected[j].rationale # <<r_tx_fail>>

C12_Witness ==
    /\ Len(items) = 1
    /\ seed.transmission = "manual"
    /\ items[1].sig.transmission = tx_CVT
    /\ Len(tiered.rejected) = 1
    /\ tiered.rejected[1].rationale = <<r_tx_fail>>
    /\ tiered.rejected[1].score = 0

\* the candidate with this id is in the list
InList(list, id) == \E j \in 1..Len(list) : list[j].id = id

\* the trim "S" is confirmed when the letter s occurs in the trim field or in
\* the text built from the other fields
TrimEvidence(sig) ==
    \/ sig.trim = tr_S
    \/ sig.make = mk_Porsche
    \/ sig.model = md_Boxster
    \/ sig.exteriorColor = col_SpeedYellow

\* the colour "yellow" is confirmed by the colour field alone: no other field
\* of the listings contains the word
ColorEvidence(sig) == sig.exteriorColor = col_SpeedYellow

\* the tier-1 criterion of a record that passed the transmission and year
\* gates: trim and colour confirmed or not required, and the budget gate
\* passed (no ceiling, or the price known and at most the ceiling)
Tier1Expected(sd, sig) ==
    /\ (sd.trim = <<>> \/ TrimEvidence(sig))
    /\ (sd.exteriorColor = <<>> \/ ColorEvidence(sig))
    /\ (sd.budgetMaxUsd = NoNum
          \/ (sig.price # NoNum /\ sig.price <= sd.budgetMaxUsd))

HasReason(c, line) == \E k \in 1..Len(c.rationale) : c.rationale[k] = line

\* C14: when the seed requires a colour and neither the colour field nor the
\* text of a record contains it, the record is never a finalist, a discovery
\* candidate made of it carries "Color not confirmed" and never "Color
\* confirmed", and it is rejected only by one of the four hard gates: alone
\* in the batch it is a discovery candidate unless such a gate rejected it.
C14_ColorEvidence ==
    \A i \in 1..Len(items) : \A id \in {items[i].candidate.id} :
        (seed.exteriorColor = seed_yellow /\ ~ColorEvidence(items[i].sig)) =>
            /\ ~InList(tiered.finalists, id)
            /\ \A j \in 1..Len(tiered.discovery) :
                  tiered.discovery[j].id = id =>
                      /\ HasReason(tiered.discovery[j],
                                   withArg(r_color_not_confirmed, seed_yellow))
                      /\ ~HasReason(tiered.discovery[j],
                                    withArg(r_color_confirmed, seed_yellow))
            /\ \A j \in 1..Len(tiered.rejected) :
                  tiered.rejected[j].id = id =>
                      tiered.rejected[j].rationale \in
                          {<<r_wrong_make>>, <<r_wrong_model>>,
                           <<r_year_outside>>, <<r_tx_fail>>}
            /\ Len(items) = 1 =>
                  InList(tiered.discovery, id) \/ InList(tiered.rejected, id)

C14_Witness ==
    /\ Len(items) = 1
    /\ seed.exteriorColor = seed_yellow
    /\ items[1].sig.exteriorColor = <<>>
    /\ items[1].sig.make = mk_Porsche
    /\ Len(tiered.discovery) = 1
    /\ HasReason(tiered.discovery[1], withArg(r_color_not_confirmed, seed_yellow))

\* the score the adjustments of the scoring rules give: 50, +8 for a
\* confirmed required trim, +12 for a confirmed required colour, +8 for a
\* known price within budget, and for a known mileage +10 up to the ideal
\* threshold, else +5 up to the acceptable one, else -8; clamped to [0, 100]
ScoreExpected(sd, sig) ==
    Max(0, Min(100,
        50
        + (IF sd.trim # <<>> /\ TrimEvidence(sig) THEN 8 ELSE 0)
        + (IF sd.exteriorColor # <<>> /\ ColorEvidence(sig) THEN 12 ELSE 0)
        + (IF sd.budgetMaxUsd # NoNum /\ sig.price # NoNum
                /\ sig.price <= sd.budgetMaxUsd THEN 8 ELSE 0)
        + (IF sig.miles = NoNum THEN 0
           ELSE IF sd.mileageIdealMax # NoNum /\ sig.miles <= sd.mileageIdealMax THEN 10
           ELSE IF sd.mileageOkMax # NoNum /\ sig.miles <= sd.mileageOkMax THEN 5
           ELSE IF sd.mileageOkMax # NoNum THEN 0 - 8
           ELSE 0)))

\* C15: the score of every record that is not hard-rejected is 50 plus the
\* trim, colour, budget and mileage adjustments only, clamped to [0, 100].
C15_ScoreAdjustments ==
    \A i \in 1..Len(items) :
        /\ \A j \in 1..Len(tiered.finalists) :
              tiered.finalists[j].id = items[i].candidate.id =>
                  tiered.finalists[j].score = ScoreExpected(seed, items[i].sig)
        /\ \A j \in 1..Len(tiered.discovery) :
              tiered.discovery[j].id = items[i].candidate.id =>
                  tiered.discovery[j].score = ScoreExpected(seed, items[i].sig)

\* C16: decide returns exactly one action for every pair of lists: ACT
\* exactly when there are finalists, WATCH exactly when there are none and
\* there are discovery candidates, REVISE exactly when both lists are empty;
\* under ACT the selected candidate is a finalist of maximal score.
C16_DecideExhaustive ==
    session.decision # NoDecision =>
        /\ session.decision.action \in {"ACT", "WATCH", "REVISE"}
        /\ session.decision.action = "ACT" <=> session.finalists # <<>>
        /\ session.decision.action = "WATCH" <=>
              (session.finalists = <<>> /\ session.discovery # <<>>)
        /\ session.decision.action = "REVISE" <=>
              (session.finalists = <<>> /\ session.discovery = <<>>)
        /\ session.decision.action = "ACT" =>
              /\ \E j \in 1..Len(session.finalists) :
                    session.finalists[j] = session.decision.selected
              /\ \A j \in 1..Len(session.finalists) :
                    session.finalists[j].score <= session.decision.selected.score

C16_Witness ==
    /\ session.decision.action = "ACT"
    /\ Len(session.finalists) = 3
    /\ session.discovery # <<>>
    /\ session.finalists[1].score < session.finalists[3].score
    /\ session.decision.selected = session.finalists[3]

\* the content key of the watch of a session: goal type and canonical boundary
WatchKey(s) ==
    [goal |-> s.goal_type,
     must_have |-> s.constraints.tier1,
     acceptable |-> s.constraints.tier2,
     reject |-> dedupeStrings(s.rejection_rules
                  \o [i \in 1..Len(s.constraints.tier1) |->
                        derivedRule(s.constraints.tier1[i])]),
     sources |-> <<"auto.dev">>]

\* the watch specifications stored under a key
StoredUnder(st, key) == {e.watch : e \in {x \in st : x.key = key}}

\* C17: a watch request on an empty key reports created = TRUE and stores
\* the specification it returns; a later request with the same goal type
\* and canonical boundary reports created = FALSE, returns the stored
\* specification and leaves the store as it is; the store holds exactly one
\* entry for the key afterwards.
C17_WatchIdempotent ==
    [][(Responding /\ parked' = parked /\ resp'.path = "watch") =>
          /\ resp'.created <=> StoredUnder(store, WatchKey(session')) = {}
          /\ resp'.created =>
                store' = store \cup {[key |-> WatchKey(session'),
                                      watch |-> session'.watch]}
          /\ ~resp'.created =>
                /\ store' = store
                /\ StoredUnder(store, WatchKey(session')) = {session'.watch}
          /\ Cardinality({e \in store' : e.key = WatchKey(session')}) = 1]_vars

\* a second request on the same key has been answered
C17_Witness ==
    /\ resp.path = "watch"
    /\ ~resp.created
    /\ StoredUnder(store, WatchKey(session)) = {session.watch}

\* the turns of the concurrent sessions: 0 is the running one
Turns == 0..MaxParked

TurnOf(i) == IF i = 0 THEN Parked(session, req, resp) ELSE parked[i]

\* the turns that were answered by the watch branch for this key
WatchTurns(key) ==
    {i \in Turns : /\ TurnOf(i).resp.path = "watch"
                   /\ WatchKey(TurnOf(i).session) = key}

\* C18: when turns of several sessions interleave at their awaits and
\* request a watch for the same content key, the store holds exactly one
\* entry for the key and exactly one of those turns reports created = TRUE.
C18_ConcurrentUpsert ==
    \A i \in Turns :
        TurnOf(i).resp.path = "watch" =>
            \A key \in {WatchKey(TurnOf(i).session)} :
                /\ Cardinality({e \in store : e.key = key}) = 1
                /\ Cardinality({j \in WatchTurns(key) : TurnOf(j).resp.created}) = 1

\* two turns on the same key have both been answered
C18_Witness ==
    /\ resp.path = "watch"
    /\ ~resp.created
    /\ parked[1].resp.path = "watch"
    /\ parked[1].resp.created
    /\ WatchKey(parked[1].session) = WatchKey(session)
    /\ parked[1].resp.from # resp.from
    /\ Cardinality(store) = 1

\* the watch specification is the one the canonical boundary of the session
\* gives
FromCanonical(watch, s) ==
    /\ watch.must_have = computeCanonicalBoundary(s).tier1
    /\ watch.acceptable = computeCanonicalBoundary(s).tier2
    /\ watch.reject = computeCanonicalBoundary(s).hard_rejections

\* C19: every watch specification a turn attaches to the session it returns,
\* and every one it stores, has must_have, acceptable and reject equal to the
\* canonical tier1, tier2 and hard_rejections of that session.
C19_WatchFromCanonical ==
    [][Responding =>
          /\ (session'.watch # NoWatch /\ session'.watch # session.watch) =>
                FromCanonical(session'.watch, session')
          /\ \A e \in store' \ store : FromCanonical(e.watch, session')]_vars

\* C20: a turn sets session.watch or adds a store entry only when the user
\* message asks for a watch and the state of the session sent was S3_EXPLORE
\* or S4_DECIDE.
C20_WatchOnlyOnRequest ==
    [][(Responding /\ (session'.watch # session.watch \/ store' # store)) =>
          /\ includes(toLowerCase(req.userMessage), kw_watch)
          /\ session.state \in {"S3_EXPLORE", "S4_DECIDE"}]_vars

\* ---------------------------------------------------------------------------
\* normalizeSession applied to sessions as a client can send them: up to
\* MaxLines constraint lines spread over the three tiers, no gen and no
\* year_range in the intent
\* ---------------------------------------------------------------------------
MaxLines == 3

MaxNormalize == 2

ln_stick == <<"S", "t", "i", "c", "k">>
ln_stick_dup == <<" ", "s", "t", "i", "c", "k", " ">>
ln_ok_auto == <<"o", "k", " ", "a", "u", "t", "o">>
ln_must_avoid == <<"m", "u", "s", "t", " ", "a", "v", "o", "i", "d", " ", "r", "u", "s", "t">>
ln_nice_roof == <<"n", "i", "c", "e", " ", "r", "o", "o", "f">>
ln_years == <<"9", "8", "6", " ", "2", "0", "0", "1", EN_DASH, "2", "0", "0", "4">>

NormalizeLines == {ln_stick, ln_stick_dup, ln_ok_auto, ln_must_avoid, ln_nice_roof, ln_years}

TierNames == {"tier1", "tier2", "tier3"}

linesOf(pairs, tier) ==
    LET texts(sel) == [i \in 1..Len(sel) |-> sel[i][1]]
    IN  texts(SelectSeq(pairs, LAMBDA p : p[2] = tier))

NormalizeSessions ==
    {[newSession("S1_CAPTURE") EXCEPT
        !.constraints = [tier1 |-> linesOf(p, "tier1"),
                         tier2 |-> linesOf(p, "tier2"),
                         tier3 |-> linesOf(p, "tier3")]] :
     p \in UNION {[1..n -> NormalizeLines \X TierNames] : n \in 0..MaxLines}}

InitNormalize ==
    /\ session \in NormalizeSessions
    /\ req = [pc |-> "normalize", applied |-> 0, arrived |-> session.constraints]
    /\ store = 0 /\ resp = 0 /\ parked = 0
    /\ seed = 0 /\ items = 0 /\ tiered = 0 /\ retrieval = 0

Normalize ==
    /\ req.applied < MaxNormalize
    /\ session' = normalizeSession(session)
    /\ req' = [req EXCEPT !.applied = @ + 1]
    /\ UNCHANGED <<store, resp, parked, seed, items, tiered, retrieval>>

NextNormalize == Normalize

SpecNormalize == InitNormalize /\ [][NextNormalize]_vars

\* C21: normalizeSession is idempotent: applied to a session it has already
\* produced, it leaves tier1, tier2 and tier3 (members, order, text) and the
\* back-filled gen and year_range as they are
C21_NormalizeIdempotent ==
    [][(req.applied >= 1 /\ req'.applied = req.applied + 1) =>
          /\ session'.constraints = session.constraints
          /\ session'.intent.gen = session.intent.gen
          /\ session'.intent.year_range = session.intent.year_range]_vars

C21_Witness ==
    /\ req.applied = 2
    /\ session.intent.gen = <<"9", "8", "6">>
    /\ session.intent.year_range = <<"2", "0", "0", "1", "-", "2", "0", "0", "4">>
    /\ session.constraints.tier1 = <<ln_must_avoid>>
    /\ session.constraints.tier3 = <<ln_years>>

HasIndicator(text, words) == \E w \in words : matchWord(normalizeLine(text), w)

\* C22 as stated: after normalizeSession no tier1 entry contains a
\* preference indicator, whatever other indicators it also contains
C22_PreferenceNeverTier1 ==
    req.applied >= 1 =>
        \A i \in 1..Len(session.constraints.tier1) :
            ~HasIndicator(session.constraints.tier1[i], PreferenceWords)

\* C22: after normalizeSession a tier1 entry that contains a preference
\* indicator also contains a hard indicator, whatever tier it arrived in
C22_PreferenceWithoutHardNeverTier1 ==
    req.applied >= 1 =>
        \A i \in 1..Len(session.constraints.tier1) :
            HasIndicator(session.constraints.tier1[i], PreferenceWords) =>
                HasIndicator(session.constraints.tier1[i], HardWords)

C22_Witness ==
    /\ req.applied = 1
    /\ req.arrived.tier1 = <<ln_ok_auto, ln_must_avoid>>
    /\ session.constraints.tier1 = <<ln_must_avoid>>
    /\ session.constraints.tier2 = <<ln_ok_auto>>

\* C23: after normalizeSession any two entries of tier1, tier2 and tier3
\* (of the same tier or of different tiers) have different normalized texts,
\* and each entry is the first arrived line of that normalized text, in its
\* original casing
C23_NoRuleInTwoTiers ==
    req.applied >= 1 =>
        /\ \A i, j \in 1..Len(allEntries(session.constraints)) :
              i # j => normalizeLine(allEntries(session.constraints)[i])
                          # normalizeLine(allEntries(session.constraints)[j])
        /\ \A i \in 1..Len(allEntries(session.constraints)) :
              \E k \in 1..Len(allEntries(req.arrived)) :
                 /\ trim(allEntries(req.arrived)[k]) = allEntries(session.constraints)[i]
                 /\ \A h \in 1..(k - 1) :
                       normalizeLine(allEntries(req.arrived)[h])
                          # normalizeLine(allEntries(req.arrived)[k])

\* ---------------------------------------------------------------------------
\* computeCanonicalBoundary applied to sessions with up to MaxLines tier1
\* lines and up to MaxRules explicit rejection rules
\* ---------------------------------------------------------------------------
MaxRules == 2

rej_blank == <<" ", " ">>
rej_no_rust == <<" ", "N", "o", " ", "r", "u", "s", "t">>
rej_no_rust_dup == <<"n", "o", " ", " ", "r", "u", "s", "t">>
rej_violate_stick == <<"n", "o", " ", "l", "i", "s", "t", "i", "n", "g", "s", " ", "t", "h", "a", "t", " ",
                       "v", "i", "o", "l", "a", "t", "e", ":", " ", "S", "T", "I", "C", "K">>

BoundaryRules == {rej_blank, rej_no_rust, rej_no_rust_dup, rej_violate_stick}

BoundaryLines == {ln_stick, ln_stick_dup, ln_must_avoid}

BoundarySessions ==
    {[newSession("S4_DECIDE") EXCEPT
        !.constraints.tier1 = t1,
        !.constraints.tier2 = t2,
        !.rejection_rules = rr] :
     t1 \in UNION {[1..n -> BoundaryLines] : n \in 0..MaxLines},
     t2 \in {<<>>, <<ln_ok_auto>>},
     rr \in UNION {[1..n -> BoundaryRules] : n \in 0..MaxRules}}

InitBoundary ==
    /\ session \in BoundarySessions
    /\ resp = NoResp
    /\ store = 0 /\ req = 0 /\ parked = 0
    /\ seed = 0 /\ items = 0 /\ tiered = 0 /\ retrieval = 0

Boundary ==
    /\ resp = NoResp
    /\ resp' = computeCanonicalBoundary(session)
    /\ UNCHANGED <<session, store, req, parked, seed, items, tiered, retrieval>>

NextBoundary == Boundary

SpecBoundary == InitBoundary /\ [][NextBoundary]_vars

\* the entries of seq at the positions idx, in the order of seq
subseqAt(seq, idx) ==
    [i \in 1..Cardinality(idx) |->
        seq[CHOOSE k \in idx : Cardinality({j \in idx : j <= k}) = i]]

\* the positions of all whose normalized text equals that of no earlier entry
firstOccurrences(all) ==
    {k \in 1..Len(all) :
        \A h \in 1..(k - 1) : normalizeLine(all[h]) # normalizeLine(all[k])}

\* the explicit rejection rules followed by one derived line per tier1 entry
explicitThenDerived(s) ==
    s.rejection_rules
        \o [i \in 1..Len(s.constraints.tier1) |-> derivedRule(s.constraints.tier1[i])]

\* C24 as stated: tier1 and tier2 verbatim, and hard_rejections equal to the
\* explicit rules followed by the derived lines with later entries of an
\* already seen normalized text removed
C24_BoundaryAsStated ==
    resp # NoResp =>
        /\ resp.tier1 = session.constraints.tier1
        /\ resp.tier2 = session.constraints.tier2
        /\ resp.hard_rejections
              = subseqAt(explicitThenDerived(session),
                         firstOccurrences(explicitThenDerived(session)))

\* C24: tier1 and tier2 verbatim, and hard_rejections equal to the explicit
\* rules followed by the derived lines, each trimmed, with blank entries and
\* later entries of an already seen normalized text removed
C24_BoundaryTrimmed ==
    resp # NoResp =>
        /\ resp.tier1 = session.constraints.tier1
        /\ resp.tier2 = session.constraints.tier2
        /\ \E kept \in {{k \in firstOccurrences(explicitThenDerived(session)) :
                            normalizeLine(explicitThenDerived(session)[k]) # <<>>}} :
              resp.hard_rejections
                 = [i \in 1..Cardinality(kept) |->
                       trim(subseqAt(explicitThenDerived(session), kept)[i])]

C24_Witness ==
    /\ resp # NoResp
    /\ session.rejection_rules = <<rej_violate_stick, rej_no_rust>>
    /\ session.constraints.tier1 = <<ln_stick, ln_must_avoid, ln_stick_dup>>
    /\ Len(resp.hard_rejections) = 3

\* C25: the boundary the model proposes influences neither the session
\* constraints, the finalists, the discovery list, the decision, the watch
\* nor the watch-store key: what a turn leaves on a model output is what it
\* leaves on the same output without its boundary
C25_BoundaryNoInfluence ==
    req.pc = "model" =>
        \A d \in {o \in ModelOutputs : o.boundary.present} :
            modelOutcome(session, store, req, resp, d)
               = modelOutcome(session, store, req, resp, [d EXCEPT !.boundary = NoBoundary])

C25_Witness ==
    /\ resp.path = "watch"
    /\ resp.created
    /\ session.watch.must_have = session.constraints.tier1
    /\ session.constraints.tier1 # <<>>
    /\ \E d \in ModelOutputs : d.boundary.present /\ d.boundary.tier1 # session.constraints.tier1

\* C26: a turn whose model output is malformed or fails validation returns
\* the fallback's response, and the returned session has the intent, the
\* constraints and the taste of the incoming session
C26_FallbackMergesNothing ==
    [][(Responding /\ resp'.path = "fallback") =>
          /\ session'.intent = session.intent
          /\ session'.constraints = session.constraints
          /\ session'.rejection_rules = session.rejection_rules
          /\ session' = runStubStep([session EXCEPT !.state = req.working.state])]_vars

C26_Witness ==
    /\ resp.path = "fallback"
    /\ resp.from = "S1_CAPTURE"
    /\ session.state = "S2_CONFIRM"
    /\ session.constraints.tier1 = <<ln_manual, ln_clean, ln_yellow>>

\* C27: a turn that reaches the explore step in state S3_EXPLORE returns a
\* session in S4_DECIDE, whether retrieval succeeds, fails, times out or is
\* refused for an insufficient seed
C27_ExploreEndsInDecide ==
    [][(Responding /\ req.routed = "S3_EXPLORE" /\ resp'.path # "fallback") =>
          /\ resp'.path \in {"explore-live", "explore-failed", "explore-insufficient"}
          /\ session'.state = "S4_DECIDE"]_vars

C27_Witness ==
    /\ resp.path = "explore-failed"
    /\ resp.from = "S2_CONFIRM"
    /\ session.state = "S4_DECIDE"
    /\ session.decision # NoDecision

\* C28: when live retrieval fails or times out, every finalist and every
\* discovery candidate returned for the turn is a labeled placeholder
C28_FailureGivesPlaceholders ==
    [][(Responding /\ req.pc = "retrieval" /\ resp'.path = "explore-failed") =>
          /\ \A i \in 1..Len(session'.finalists) : session'.finalists[i].is_placeholder
          /\ \A i \in 1..Len(session'.discovery) : session'.discovery[i].is_placeholder]_vars

\* C29: the retrieval collaborator is called only with a seed that has a make
\* and a model; a turn in S3_EXPLORE whose seed lacks one of them is answered
\* without that call
C29_InsufficientSeed ==
    [][/\ req'.pc = "retrieval" =>
            /\ deriveExploreSeed(req'.working).make # <<>>
            /\ deriveExploreSeed(req'.working).model # <<>>
       /\ (Responding /\ req.pc = "model" /\ req.routed = "S3_EXPLORE"
              /\ resp'.path # "fallback") =>
            /\ resp'.path = "explore-insufficient"
            /\ (session'.intent.make = <<>> \/ session'.intent.model = <<>>)]_vars

C29_Witness ==
    /\ resp.path = "explore-insufficient"
    /\ resp.from = "S2_CONFIRM"
    /\ session.intent.make = <<>>
    /\ session.state = "S4_DECIDE"

\* the rationale without the salt-road advisory
withoutSalt(rationale) == SelectSeq(rationale, LAMBDA line : line # r_salt)

\* C30: mileage and the salt-road advisory never gate: before capping, a
\* record gets the class it gets with its mileage unknown and the class it
\* gets with its region unknown (so two records that differ only in mileage
\* or only in region get the same class), and the advisory changes neither
\* its score nor its class, only its rationale
C30_MileageAndSaltNeverGate ==
    \A i \in 1..Len(items) :
        \E base \in {scoreOne(seed, items[i])} :
            /\ items[i].sig.miles # NoNum =>
                  scoreOne(seed, [items[i] EXCEPT !.sig.miles = NoNum]).class = base.class
            /\ items[i].sig.state # <<>> =>
                  scoreOne(seed, [items[i] EXCEPT !.sig.state = <<>>]).class = base.class
            /\ \E other \in {scoreOne([seed EXCEPT !.avoidSaltHistory = ~@], items[i])} :
                  /\ other.class = base.class
                  /\ other.cand.score = base.cand.score
                  /\ other.cand.verdict = base.cand.verdict
                  /\ withoutSalt(other.cand.rationale) = withoutSalt(base.cand.rationale)
                  /\ HasReason(base.cand, r_salt) => seed.avoidSaltHistory

C30_Witness ==
    /\ Len(items) = 1
    /\ seed.avoidSaltHistory
    /\ items[1].sig.miles = 90000
    /\ items[1].sig.state = st_CA
    /\ Len(tiered.finalists) = 1
    /\ HasReason(tiered.finalists[1], r_mileage_above)
    /\ HasReason(tiered.finalists[1], r_salt)

\* the trimmed rationale lines of the discovery candidates that contain
\* "not confirmed", in list order
notConfirmedLines(s) ==
    SelectSeq([i \in 1..Len(rationaleLines(s.discovery)) |->
                  trim(rationaleLines(s.discovery)[i])],
              LAMBDA t : includes(toLowerCase(t), w_not_confirmed))

\* the positions of lines whose text, ignoring case, is that of no earlier line
firstIgnoringCase(lines) ==
    {k \in 1..Len(lines) :
        \A h \in 1..(k - 1) : toLowerCase(lines[h]) # toLowerCase(lines[k])}

\* C31: under a WATCH decision the blockers are at most 4, pairwise distinct
\* ignoring case, and are the first such "not confirmed" rationale lines of
\* the discovery candidates in list order; watchSeedSummary is the canonical
\* tier1 list
C31_Blockers ==
    (session.decision # NoDecision /\ session.decision.action = "WATCH") =>
        /\ Len(session.decision.blockers) <= 4
        /\ \A i, j \in 1..Len(session.decision.blockers) :
              i # j => toLowerCase(session.decision.blockers[i])
                          # toLowerCase(session.decision.blockers[j])
        /\ \E all \in {subseqAt(notConfirmedLines(session),
                                firstIgnoringCase(notConfirmedLines(session)))} :
              session.decision.blockers = SubSeq(all, 1, Min(4, Len(all)))
        /\ session.decision.watchSeedSummary = computeCanonicalBoundary(session).tier1
        /\ session.decision.watchSeedSummary = session.constraints.tier1

C31_Witness ==
    /\ session.decision # NoDecision
    /\ session.decision.action = "WATCH"
    /\ Len(session.discovery) = 3
    /\ session.discovery[1].rationale = <<bl_year_padded, bl_title>>
    /\ session.discovery[2].rationale = <<bl_miles>>
    /\ session.discovery[3].rationale = <<bl_trim_upper, bl_color>>
    /\ session.decision.blockers = <<trim(bl_year_padded), bl_title, bl_miles, bl_trim_upper>>

\* the content keys the answered watch requests asked for: s and rs are the
\* session and response of the running turn, pk the parked turns
RequestedKeys(s, rs, pk) ==
    (IF rs.path = "watch" THEN {WatchKey(s)} ELSE {})
        \cup {WatchKey(pk[i].session) : i \in {j \in 1..Len(pk) : pk[j].resp.path = "watch"}}

\* C32: the watch store only grows: no step removes or replaces an entry, a
\* new entry has a key the store did not hold, a request on a stored key is
\* answered with the stored specification and created = FALSE, one on a new
\* key inserts and reports created = TRUE, and the store holds one entry per
\* distinct content key requested so far
C32_StoreOnlyGrows ==
    [][/\ store \subseteq store'
       /\ \A e \in store' \ store : ~\E x \in store : x.key = e.key
       /\ Cardinality(store') = Cardinality(RequestedKeys(session', resp', parked'))
       /\ (Responding /\ parked' = parked /\ resp'.path = "watch") =>
             IF \E x \in store : x.key = WatchKey(session')
             THEN /\ ~resp'.created
                  /\ store' = store
                  /\ [key |-> WatchKey(session'), watch |-> session'.watch] \in store
             ELSE /\ resp'.created
                  /\ store' \ store = {[key |-> WatchKey(session'),
                                        watch |-> session'.watch]}]_vars

C32_Witness ==
    /\ Cardinality(store) = 2
    /\ resp.path = "watch" /\ resp.created
    /\ parked[1].resp.path = "watch" /\ parked[1].resp.created
    /\ WatchKey(parked[1].session) # WatchKey(session)

\* ------------------------------------------------------------------------
\* The retrieval call of runLiveExplore, event by event
\* ------------------------------------------------------------------------
\* no retrieval call has been made in the turn
NoCall == [calls |-> 0, timer |-> "none", provider |-> "none", settled |-> "none",
           value |-> <<>>]

\* a promise that takes every settlement, the last one winning
settle_last(r, outcome, value) == [r EXCEPT !.settled = outcome, !.value = value]

\* resolve(v) and reject(e) of the promise withTimeout returns: the first
\* one settles it, a settled promise ignores the later ones
settle(r, outcome, value) ==
    IF r.settled = "pending" THEN [r EXCEPT !.settled = outcome, !.value = value] ELSE r

\* POST receives the next message of the session: a new request, no call yet
SendTimed(userMessage) ==
    /\ Send(userMessage)
    /\ retrieval' = NoCall

\* runLiveExplore reaches withTimeout(searchAutoDevListings(...), timeoutMs):
\* the provider is called and the timer is set
CallRetrieval ==
    /\ req.pc = "retrieval"
    /\ retrieval.settled = "none"
    /\ retrieval' = [calls |-> retrieval.calls + 1, timer |-> "armed",
                     provider |-> "pending", settled |-> "pending", value |-> <<>>]
    /\ UNCHANGED <<session, store, req, resp>>

\* a p.then whose result replaces an outcome already settled
ProviderResolves_wins(listings) ==
    /\ retrieval.provider = "pending"
    /\ retrieval' = settle_last([retrieval EXCEPT
                                    !.provider = "resolved",
                                    !.timer = IF @ = "armed" THEN "cleared" ELSE @],
                                "resolved", listings)
    /\ UNCHANGED <<session, store, req, resp>>

\* p.then: clearTimeout(t); resolve(v)
ProviderResolves(listings) ==
    /\ retrieval.provider = "pending"
    /\ retrieval' = settle([retrieval EXCEPT
                               !.provider = "resolved",
                               !.timer = IF @ = "armed" THEN "cleared" ELSE @],
                           "resolved", listings)
    /\ UNCHANGED <<session, store, req, resp>>

\* .catch: clearTimeout(t); reject(e)
ProviderRejects ==
    /\ retrieval.provider = "pending"
    /\ retrieval' = settle([retrieval EXCEPT
                               !.provider = "rejected",
                               !.timer = IF @ = "armed" THEN "cleared" ELSE @],
                           "error", <<>>)
    /\ UNCHANGED <<session, store, req, resp>>

\* the setTimeout callback, which runs unless clearTimeout came first:
\* reject(new Error("Timeout after ..."))
TimerFires ==
    /\ retrieval.timer = "armed"
    /\ retrieval' = settle([retrieval EXCEPT !.timer = "fired"], "timeout", <<>>)
    /\ UNCHANGED <<session, store, req, resp>>

\* the await of runLiveExplore resumes with the listings
AwaitResolved ==
    /\ retrieval.settled = "resolved"
    /\ RetrievalResponds(retrieval.value)
    /\ UNCHANGED retrieval

\* a handler that calls the provider again after a failure
AwaitRejected_retry ==
    /\ retrieval.settled \in {"timeout", "error"}
    /\ req.pc = "retrieval"
    /\ retrieval' = [retrieval EXCEPT !.settled = "none"]
    /\ UNCHANGED <<session, store, req, resp>>

\* the await of runLiveExplore throws; POST catches, logs and goes on
AwaitRejected ==
    /\ retrieval.settled \in {"timeout", "error"}
    /\ RetrievalFails
    /\ UNCHANGED retrieval

\* the sessions of the turns that can reach the explore step
TimedSessions == {s \in InitSessions : s.state \in {"S2_CONFIRM", "S3_EXPLORE"}}

InitTimeout ==
    /\ session \in TimedSessions
    /\ store = {}
    /\ req = IdleReq
    /\ resp = NoResp
    /\ retrieval = NoCall
    /\ parked = <<>>
    /\ seed = 0 /\ items = 0 /\ tiered = 0

NextTimeout ==
    \/ \E m \in UserMessages : SendTimed(m) /\ UNCHANGED <<scoreVars, parked>>
    \/ \E d \in ModelOutputs : ModelResponds(d) /\ UNCHANGED <<scoreVars, parked, retrieval>>
    \/ ModelFails /\ UNCHANGED <<scoreVars, parked, retrieval>>
    \/ CallRetrieval /\ UNCHANGED <<scoreVars, parked>>
    \/ \E ls \in ListingBatches : ProviderResolves(ls) /\ UNCHANGED <<scoreVars, parked>>
    \/ ProviderRejects /\ UNCHANGED <<scoreVars, parked>>
    \/ TimerFires /\ UNCHANGED <<scoreVars, parked>>
    \/ AwaitResolved /\ UNCHANGED <<scoreVars, parked>>
    \/ AwaitRejected /\ UNCHANGED <<scoreVars, parked>>

SpecTimeout == InitTimeout /\ [][NextTimeout]_vars

\* the retrieval of the turn failed: its timer fired or the provider rejected
RetrievalFailed == retrieval.timer = "fired" \/ retrieval.provider = "rejected"

MaxListings == 3

vin_1 == <<"V", "1">>
vin_1_padded == <<" ", "V", "1">>
vin_2 == <<"V", "2">>
url_1 == <<"u", "/", "1">>
url_2 == <<"u", "/", "2">>

\* the VIN and the listing URL a record may carry; either may be missing
ListingKeys == {<<v, u>> : v \in {<<>>, vin_1, vin_1_padded, vin_2}, u \in {<<>>, url_1, url_2}}

\* the records of a retrieval result; the price tells the k-th record from
\* the others
keyedBatch(ks) ==
    <<>> \o [k \in 1..Len(ks) |->
               [listing(ks[k][1], [BaseSig EXCEPT !.price = 25000 + k]) EXCEPT !.url = ks[k][2]]]

KeyedBatches == {keyedBatch(ks) : ks \in UNION {[1..n -> ListingKeys] : n \in 0..MaxListings}}

\* LIVE_SEARCH_TOPN: a small configured batch size, and the default
BatchSizes == {2, topN}

InitDedupe ==
    /\ retrieval \in {[value |-> b, topN |-> n] : b \in KeyedBatches, n \in BatchSizes}
    /\ req = [pc |-> "retrieved"]
    /\ items = <<>>
    /\ session = 0 /\ store = 0 /\ resp = 0 /\ parked = 0
    /\ seed = 0 /\ tiered = 0

\* runLiveExplore from the arrival of the listings to the call of scoreAndTier
Dedupe ==
    /\ req.pc = "retrieved"
    /\ items' = scoredRecords(retrieval.value, retrieval.topN)
    /\ req' = [pc |-> "scored"]
    /\ UNCHANGED <<session, store, resp, parked, seed, tiered, retrieval>>

NextDedupe == Dedupe

SpecDedupe == InitDedupe /\ [][NextDedupe]_vars

\* the VIN of a record and, for a record without a VIN, its listing URL
vinOf(l) == trim(l.vin)
urlOf(l) == trim(l.url)

\* two records are the same listing: the same VIN, or no VIN on either and
\* the same listing URL
sameListing(a, b) ==
    \/ vinOf(a) # <<>> /\ vinOf(a) = vinOf(b)
    \/ vinOf(a) = <<>> /\ vinOf(b) = <<>> /\ urlOf(a) # <<>> /\ urlOf(a) = urlOf(b)

\* the positions of the first occurrences of the listings that have a VIN
\* or a URL
firstPositions(listings) ==
    {k \in 1..Len(listings) :
        /\ vinOf(listings[k]) # <<>> \/ urlOf(listings[k]) # <<>>
        /\ ~\E j \in 1..(k - 1) : sameListing(listings[j], listings[k])}

\* C34: the records passed to scoreAndTier hold no two listings with the
\* same VIN and, among those without a VIN, no two with the same URL; they
\* are the first occurrences in retrieval order, and at most N of them
C34_DedupeBeforeScoring ==
    req.pc = "scored" =>
        /\ \A i \in 1..Len(items) : \A j \in 1..Len(items) :
              i # j => ~sameListing(items[i], items[j])
        /\ Len(items) <= retrieval.topN
        /\ Len(items) = Min(retrieval.topN, Cardinality(firstPositions(retrieval.value)))
        /\ \A i \in 1..Len(items) :
              \E k \in firstPositions(retrieval.value) :
                 /\ items[i] = retrieval.value[k]
                 /\ Cardinality({j \in firstPositions(retrieval.value) : j < k}) = i - 1

\* a VIN repeated with padding, and a record without a VIN whose URL is that
\* of a record with a VIN: the repeat is dropped, the other two are scored
C34_Witness ==
    /\ req.pc = "scored"
    /\ Len(retrieval.value) = 3
    /\ retrieval.value[1].vin = vin_1 /\ retrieval.value[1].url = url_1
    /\ retrieval.value[2].vin = vin_1_padded
    /\ retrieval.value[3].vin = <<>> /\ retrieval.value[3].url = url_1
    /\ items = <<retrieval.value[1], retrieval.value[3]>>

\* C35: within one turn the provider is called at most once, every call is
\* made with the timer set, and after a failure or a timeout the turn makes
\* no further call before it responds
C35_SingleCallUnderTimeout ==
    [][/\ retrieval'.calls <= 1
       /\ retrieval'.calls # retrieval.calls =>
             \/ req.pc = "idle" /\ req'.pc = "model" /\ retrieval'.calls = 0
             \/ /\ retrieval.calls = 0 /\ retrieval'.calls = 1
                /\ retrieval'.timer = "armed" /\ retrieval'.provider = "pending"
       /\ (RetrievalFailed /\ req.pc # "idle") =>
             /\ retrieval'.calls = retrieval.calls
             /\ retrieval'.settled # "none"
             /\ req'.pc = "idle" => resp'.path = "explore-failed"]_vars

\* the provider rejected the one call of the turn, and the turn responded
C35_Witness ==
    /\ req.pc = "idle"
    /\ resp.path = "explore-failed"
    /\ retrieval.calls = 1
    /\ retrieval.provider = "rejected"
    /\ retrieval.timer = "cleared"

\* the promise of withTimeout has been settled
Settled == retrieval.settled \in {"resolved", "timeout", "error"}

\* C39: withTimeout settles exactly once: with the retrieval result if that
\* arrives while it is pending, with a timeout error if the timer fires
\* while it is pending, with the retrieval's error if that comes while it is
\* pending; the event that comes second changes neither the settlement nor
\* what the turn returns
C39_SettlesOnce ==
    [][/\ retrieval.settled = "pending" =>
             /\ retrieval.provider = "pending" /\ retrieval.timer = "armed"
             /\ retrieval'.provider = "resolved" =>
                   retrieval'.settled = "resolved" /\ retrieval'.timer = "cleared"
             /\ retrieval'.timer = "fired" => retrieval'.settled = "timeout"
             /\ retrieval'.provider = "rejected" =>
                   retrieval'.settled = "error" /\ retrieval'.timer = "cleared"
       /\ (Settled /\ req' = req) =>
             /\ retrieval'.settled = retrieval.settled
             /\ retrieval'.value = retrieval.value
             /\ session' = session /\ resp' = resp
       /\ (Responding /\ req.pc = "retrieval") =>
             /\ Settled /\ retrieval' = retrieval
             /\ resp'.path = IF retrieval.settled = "resolved" THEN "explore-live"
                             ELSE "explore-failed"
             /\ retrieval.settled = "resolved" =>
                   session' = exploreDone(exploreResult(req.working,
                                                        deriveExploreSeed(req.working),
                                                        retrieval.value))
             /\ retrieval.settled # "resolved" => session' = exploreDone(req.working)]_vars

\* the timer fired first and the listings arrived after it: the turn
\* answered as after a timeout
C39_Witness ==
    /\ req.pc = "idle"
    /\ resp.path = "explore-failed"
    /\ retrieval.settled = "timeout"
    /\ retrieval.timer = "fired"
    /\ retrieval.provider = "resolved"
    /\ session.decision.action = "ACT"

\* C37: when the seed has a budget ceiling, a record whose price is unknown
\* is never a finalist; the candidate made of it has the score it has
\* without the ceiling and carries "Price unknown" and neither budget
\* verdict, and alone in the batch it is a discovery candidate unless one of
\* the hard gates rejected it.
C37_UnknownPriceNeverFinalist ==
    \A i \in 1..Len(items) : \A id \in {items[i].candidate.id} :
        (Truthy(seed.budgetMaxUsd) /\ items[i].sig.price = NoNum) =>
            /\ ~InList(tiered.finalists, id)
            /\ \A j \in 1..Len(tiered.discovery) :
                  tiered.discovery[j].id = id =>
                      /\ HasReason(tiered.discovery[j], r_price_unknown)
                      /\ ~HasReason(tiered.discovery[j], r_within_budget)
                      /\ ~HasReason(tiered.discovery[j], r_over_budget)
                      /\ tiered.discovery[j].score =
                            scoreOne([seed EXCEPT !.budgetMaxUsd = NoNum], items[i]).cand.score
            /\ InList(tiered.rejected, id) => HardRejected(i)
            /\ Len(items) = 1 => (InList(tiered.discovery, id) \/ HardRejected(i))

\* a record without a price that meets every other requirement of a seed
\* with a ceiling: without the ceiling it is a finalist, with it a discovery
\* candidate
C37_Witness ==
    /\ Len(items) = 1
    /\ seed.budgetMaxUsd = 30000
    /\ seed.exteriorColor = seed_yellow
    /\ items[1].sig.price = NoNum
    /\ Len(tiered.discovery) = 1
    /\ HasReason(tiered.discovery[1], r_price_unknown)
    /\ scoreOne([seed EXCEPT !.budgetMaxUsd = NoNum], items[1]).class = "finalist"

\* C38: on a session in S4_DECIDE that carries the decision of decide(),
\* when the automatic transition goes to S7_CLOSE the decision is ACT, and
\* when the decision is WATCH or REVISE the automatic transition goes to
\* S5_WATCH.
C38_TransitionAgreesWithDecision ==
    (session.state = "S4_DECIDE" /\ session.decision # NoDecision) =>
        /\ session.decision = decide(session)
        /\ nextExecState(session) = "S7_CLOSE" => session.decision.action = "ACT"
        /\ session.decision.action \in {"WATCH", "REVISE"} =>
              nextExecState(session) = "S5_WATCH"

\* an accepted discovery candidate and no finalist: the decision is WATCH
\* and the automatic transition goes to S5_WATCH
C38_Witness ==
    /\ session.state = "S4_DECIDE"
    /\ session.finalists = <<>>
    /\ SomeAccept(session.discovery)
    /\ session.decision.action = "WATCH"
    /\ nextExecState(session) = "S5_WATCH"

\* the responses of the turns that ran the live-explore step
ExplorePaths == {"explore-insufficient", "explore-live", "explore-failed"}

\* C40: the session returned by a turn that ran the live-explore step is in
\* S4_DECIDE and carries the decision made of its own lists: ACT with the
\* best-scoring finalist when it has finalists, WATCH when it has none but
\* has discovery candidates, REVISE when it has neither, whether the
\* retrieval succeeded, failed or was not attempted.
C40_DecisionOfReturnedLists ==
    resp.path \in ExplorePaths =>
        /\ session.state = "S4_DECIDE"
        /\ session.decision # NoDecision
        /\ session.decision.action = "ACT" <=> session.finalists # <<>>
        /\ session.decision.action = "WATCH" <=>
              (session.finalists = <<>> /\ session.discovery # <<>>)
        /\ session.decision.action = "REVISE" <=>
              (session.finalists = <<>> /\ session.discovery = <<>>)
        /\ session.decision.action = "ACT" =>
              /\ InList(session.finalists, session.decision.selected.id)
              /\ \A i \in 1..Len(session.finalists) :
                    session.finalists[i].score <= session.decision.selected.score

\* the retrieval failed on a session that carried six finalists: the
\* decision is ACT on the best of the six
C40_Witness ==
    /\ resp.path = "explore-failed"
    /\ session.finalists = SixFinalists
    /\ session.decision.action = "ACT"
    /\ session.decision.selected.score = 90

\* the number of turns a session in the state needs at most to reach
\* S7_CLOSE
turnsToClose(state) ==
    CASE state = "S7_CLOSE" -> 0
      [] state = "S5_WATCH" -> 1
      [] state = "S4_DECIDE" -> 2
      [] state = "S3_EXPLORE" -> 3
      [] state = "S2_CONFIRM" -> 4
      [] state = "S1_CAPTURE" -> 5
      [] state = "S6_ITERATE" -> 5
      [] state = "S0_INIT" -> 6

\* the turn was routed by the command 'revise'
Revised == req.cmd = "S1_CAPTURE"

\* C36: every turn that is not routed by 'revise', and that does not start in
\* S1_CAPTURE with fewer than 3 tier1 entries, brings the session at least
\* one turn closer to S7_CLOSE, from at most 6 turns away, whether the model
\* call or the retrieval fails or not; a session in S7_CLOSE stays there;
\* and a turn that does not bring the session closer is CAPTURE's self-loop,
\* CLOSE's self-loop or a 'revise'.
C36_Convergence ==
    [][Responding =>
         /\ session.state \in AgentState /\ session'.state \in AgentState
         /\ turnsToClose(session.state) <= 6
         /\ session.state = "S7_CLOSE" => session'.state = "S7_CLOSE"
         /\ (/\ ~Revised
             /\ session.state # "S7_CLOSE"
             /\ session.state = "S1_CAPTURE" => Len(session.constraints.tier1) >= 3) =>
               turnsToClose(session'.state) < turnsToClose(session.state)
         /\ turnsToClose(session'.state) >= turnsToClose(session.state) =>
               \/ session.state = "S1_CAPTURE" /\ session'.state = "S1_CAPTURE"
               \/ session.state = "S7_CLOSE" /\ session'.state = "S7_CLOSE"
               \/ Revised]_vars

\* the model call failed on the turn out of S2_CONFIRM: the session is in
\* S3_EXPLORE, one turn closer
C36_Witness ==
    /\ resp.path = "fallback"
    /\ resp.from = "S2_CONFIRM"
    /\ session.state = "S3_EXPLORE"
    /\ req.pc = "idle"

====
